---- MODULE Spec2Model ----
(***************************************************************************)
(* pflow-js: the marking/firing engine of src/src/pflow.js.                *)
(*                                                                         *)
(* A net definition (def) is a record of insertion-ordered objects, each   *)
(* modelled as a sequence of records keyed by their label field.  Vectors  *)
(* are sequences: JavaScript index i is position i + 1.                    *)
(***************************************************************************)
EXTENDS Integers, Sequences, FiniteSets, TLC

VARIABLES
    models,         \* PFlowStream.models: schema -> model
    state,          \* PFlowStream.state: schema -> array reference (0: no entry)
    heap,           \* the arrays the stream and its history refer to
    seq,            \* PFlowStream.seq
    history,        \* PFlowStream.history
    eventHandlers,  \* the dispatcher's eventHandlers map: key -> handler
    trace,          \* what the last stream call did, in program order
    model,          \* a model handle used directly by a caller
    vec,            \* that caller's marking vector
    call            \* the caller's last call on the handle and what it returned

vars == <<models, state, heap, seq, history, eventHandlers, trace, model, vec, call>>

streamVars == <<models, state, heap, seq, history, eventHandlers, trace>>
callerVars == <<model, vec, call>>

(***************************************************************************)
(* Bounds of the model                                                     *)
(***************************************************************************)
MaxTok == 2      \* tokens per place in a caller-supplied marking
MaxCap == 1      \* the capacity of a bounded place (0: unbounded)
MaxMult == 2     \* largest multiplier and largest arc weight
MaxHist == 3     \* successful dispatches explored between restarts

(***************************************************************************)
(* PFlowModel: the net types                                               *)
(***************************************************************************)
petriNet == "petriNet"
workflow == "workflow"
stateMachine == "stateMachine"
PFlowModel == {petriNet, workflow, stateMachine}

(***************************************************************************)
(* Insertion-ordered objects keyed by label                                *)
(***************************************************************************)
KeyIndex(obj, label) ==
    IF \E i \in DOMAIN obj : obj[i].label = label
    THEN CHOOSE i \in DOMAIN obj : obj[i].label = label
    ELSE 0

HasKey(obj, label) == KeyIndex(obj, label) # 0

Get(obj, label) == obj[KeyIndex(obj, label)]

\* obj[rec.label] = rec: an existing key keeps its position
Put(obj, rec) ==
    IF HasKey(obj, rec.label)
    THEN [obj EXCEPT ![KeyIndex(obj, rec.label)] = rec]
    ELSE Append(obj, rec)

\* JavaScript numbers: a read past the end of an array or of a hole gives
\* undefined, and arithmetic on undefined gives NaN; every comparison with
\* NaN or undefined is false.  NaN is a value outside the range of every
\* token count.
NaN == 0 - 999999

\* v[off] = x: an index past the end lengthens the array and leaves holes
ArrSet(v, off, x) ==
    IF off < Len(v) THEN [v EXCEPT ![off + 1] = x]
    ELSE v \o [i \in 1..(off - Len(v)) |-> NaN] \o <<x>>

(***************************************************************************)
(* The declaration DSL                                                     *)
(***************************************************************************)
NewDef(schema, type) ==
    [schema |-> schema, type |-> type, roles |-> <<>>,
     places |-> <<>>, transitions |-> <<>>, arcs |-> <<>>]

PlaceNode(label) == [kind |-> "place", label |-> label]
TransitionNode(label) == [kind |-> "transition", label |-> label]

\* cell(label, initial, capacity, position): initial || 0 and capacity || 0
\* give 0 for an argument left out (NaN here); the offset is the number of
\* keys of def.places, also when label is one of them
cell(def, label, initial, capacity) ==
    [def EXCEPT !.places =
        Put(@, [label |-> label,
                initial |-> IF initial = NaN THEN 0 ELSE initial,
                capacity |-> IF capacity = NaN THEN 0 ELSE capacity,
                offset |-> Len(def.places)])]

\* fn(label, role, position)
fn(def, label, role) ==
    [def EXCEPT !.transitions =
        Put(@, [label |-> label, role |-> role, guards |-> <<>>, delta |-> <<>>])]

\* the tx of a place handle: the arc is pushed before the target is asserted
cell_tx(def, place, weight, target) ==
    [def |-> [def EXCEPT !.arcs = Append(@,
                [source |-> PlaceNode(place), target |-> target,
                 weight |-> IF weight = 0 THEN 1 ELSE weight, inhibit |-> FALSE])],
     threw |-> target.kind # "transition"]

\* the guard of a place handle: the arc is pushed before the target is asserted
cell_guard(def, place, weight, target) ==
    [def |-> [def EXCEPT !.arcs = Append(@,
                [source |-> PlaceNode(place), target |-> target,
                 weight |-> weight, inhibit |-> TRUE])],
     threw |-> target.kind # "transition"]

\* mutant of fn_tx: the target is not asserted
fn_tx_unchecked(def, transition, weight, target) ==
    [def |-> [def EXCEPT !.arcs = Append(@,
                [source |-> TransitionNode(transition), target |-> target,
                 weight |-> weight, inhibit |-> FALSE])],
     threw |-> FALSE]

\* the tx of a transition handle: the target is asserted before the push
fn_tx(def, transition, weight, target) ==
    IF target.kind # "place"
    THEN [def |-> def, threw |-> TRUE]
    ELSE [def |-> [def EXCEPT !.arcs = Append(@,
                [source |-> TransitionNode(transition), target |-> target,
                 weight |-> weight, inhibit |-> FALSE])],
          threw |-> FALSE]

(***************************************************************************)
(* Vectors of a definition                                                 *)
(***************************************************************************)
emptyVector(def) == [i \in 1..Len(def.places) |-> 0]

RECURSIVE initialVectorLoop(_, _, _)
initialVectorLoop(def, i, v) ==
    IF i > Len(def.places) THEN v
    ELSE initialVectorLoop(def, i + 1,
            ArrSet(v, def.places[i].offset, def.places[i].initial))

initialVector(def) == initialVectorLoop(def, 1, emptyVector(def))

RECURSIVE capacityVectorLoop(_, _, _)
capacityVectorLoop(def, i, v) ==
    IF i > Len(def.places) THEN v
    ELSE capacityVectorLoop(def, i + 1,
            ArrSet(v, def.places[i].offset, def.places[i].capacity))

\* starts from [], so an offset no place has is a hole
capacityVector(def) == capacityVectorLoop(def, 1, <<>>)

(***************************************************************************)
(* index(): compile the arcs into deltas and guards                        *)
(***************************************************************************)
\* mutant of indexArc: an arc out of a place adds its weight to the delta
indexArc_consumptionAdds(def, arc) ==
    IF arc.source.kind = "place" /\ arc.target.kind # "transition"
    THEN [def |-> def, ok |-> TRUE, threw |-> TRUE]
    ELSE IF arc.inhibit
    THEN LET p == Get(def.places, arc.source.label)
             g == [label |-> p.label,
                   delta |-> ArrSet(emptyVector(def), p.offset, 0 - arc.weight)]
             t == KeyIndex(def.transitions, arc.target.label)
         IN [def |-> [def EXCEPT !.transitions[t].guards = Put(@, g)], ok |-> TRUE, threw |-> FALSE]
    ELSE IF arc.source.kind = "transition"
    THEN LET p == Get(def.places, arc.target.label)
             t == KeyIndex(def.transitions, arc.source.label)
         IN [def |-> [def EXCEPT !.transitions[t].delta = ArrSet(@, p.offset, arc.weight)],
             ok |-> TRUE, threw |-> FALSE]
    ELSE IF arc.source.kind = "place"
    THEN LET p == Get(def.places, arc.source.label)
             t == KeyIndex(def.transitions, arc.target.label)
         IN [def |-> [def EXCEPT !.transitions[t].delta = ArrSet(@, p.offset, arc.weight)],
             ok |-> TRUE, threw |-> FALSE]
    ELSE [def |-> def, ok |-> FALSE, threw |-> FALSE]

\* mutant of indexArc: a guard is appended to the transition's guards
indexArc_appendsGuard(def, arc) ==
    IF arc.source.kind = "place" /\ arc.target.kind # "transition"
    THEN [def |-> def, ok |-> TRUE, threw |-> TRUE]
    ELSE IF arc.inhibit
    THEN LET p == Get(def.places, arc.source.label)
             g == [label |-> p.label,
                   delta |-> ArrSet(emptyVector(def), p.offset, 0 - arc.weight)]
             t == KeyIndex(def.transitions, arc.target.label)
         IN [def |-> [def EXCEPT !.transitions[t].guards = Append(@, g)], ok |-> TRUE, threw |-> FALSE]
    ELSE IF arc.source.kind = "transition"
    THEN LET p == Get(def.places, arc.target.label)
             t == KeyIndex(def.transitions, arc.source.label)
         IN [def |-> [def EXCEPT !.transitions[t].delta = ArrSet(@, p.offset, arc.weight)],
             ok |-> TRUE, threw |-> FALSE]
    ELSE IF arc.source.kind = "place"
    THEN LET p == Get(def.places, arc.source.label)
             t == KeyIndex(def.transitions, arc.target.label)
         IN [def |-> [def EXCEPT !.transitions[t].delta = ArrSet(@, p.offset, 0 - arc.weight)],
             ok |-> TRUE, threw |-> FALSE]
    ELSE [def |-> def, ok |-> FALSE, threw |-> FALSE]

\* one arc of the loop of index.  An arc out of a place whose target is
\* no transition handle reads .guards or .delta of undefined: a TypeError
indexArc(def, arc) ==
    IF arc.source.kind = "place" /\ arc.target.kind # "transition"
    THEN [def |-> def, ok |-> TRUE, threw |-> TRUE]
    ELSE IF arc.inhibit
    THEN LET p == Get(def.places, arc.source.label)
             g == [label |-> p.label,
                   delta |-> ArrSet(emptyVector(def), p.offset, 0 - arc.weight)]
             t == KeyIndex(def.transitions, arc.target.label)
         IN [def |-> [def EXCEPT !.transitions[t].guards = Put(@, g)], ok |-> TRUE, threw |-> FALSE]
    ELSE IF arc.source.kind = "transition"
    THEN LET p == Get(def.places, arc.target.label)
             t == KeyIndex(def.transitions, arc.source.label)
         IN [def |-> [def EXCEPT !.transitions[t].delta = ArrSet(@, p.offset, arc.weight)],
             ok |-> TRUE, threw |-> FALSE]
    ELSE IF arc.source.kind = "place"
    THEN LET p == Get(def.places, arc.source.label)
             t == KeyIndex(def.transitions, arc.target.label)
         IN [def |-> [def EXCEPT !.transitions[t].delta = ArrSet(@, p.offset, 0 - arc.weight)],
             ok |-> TRUE, threw |-> FALSE]
    ELSE [def |-> def, ok |-> FALSE, threw |-> FALSE]

RECURSIVE indexLoop(_, _, _)
indexLoop(def, i, ok) ==
    IF i > Len(def.arcs) THEN [def |-> def, ok |-> ok, threw |-> FALSE]
    ELSE LET r == indexArc(def, def.arcs[i])
         IN IF r.threw THEN [def |-> r.def, ok |-> ok, threw |-> TRUE]
            ELSE indexLoop(r.def, i + 1, ok /\ r.ok)

\* index(): ok is what it returns when it returns; threw says that it threw,
\* and def is then the definition as the arcs before the throw left it
index(def) ==
    indexLoop([def EXCEPT !.transitions =
                  [i \in DOMAIN @ |-> [@[i] EXCEPT !.delta = emptyVector(def)]]],
              1, TRUE)

(***************************************************************************)
(* Vector algebra                                                          *)
(***************************************************************************)
\* v[i] of JavaScript, with undefined and NaN identified
Elem(v, i) == IF i \in DOMAIN v THEN v[i] ELSE NaN

jsAdd(a, b) == IF a = NaN \/ b = NaN THEN NaN ELSE a + b

jsSub(a, b) == IF a = NaN \/ b = NaN THEN NaN ELSE a - b

jsMul(a, b) == IF a = NaN \/ b = NaN THEN NaN ELSE a * b

jsLt(a, b) == a # NaN /\ b # NaN /\ a < b

\* mutant of vectorAddLoop: a place filled exactly to its capacity overflows
RECURSIVE vectorAddLoop_fullOverflows(_, _, _, _, _, _)
vectorAddLoop_fullOverflows(cap, s, delta, multiple, i, acc) ==
    IF i > Len(s) THEN acc
    ELSE LET o == jsAdd(s[i], jsMul(Elem(delta, i), multiple))
             c == Elem(cap, i)
             ok == IF jsLt(o, 0) THEN FALSE
                   ELSE IF jsLt(0, c) /\ ~jsLt(0, jsSub(c, o)) /\ o # NaN THEN FALSE
                   ELSE acc.ok
         IN vectorAddLoop_fullOverflows(cap, s, delta, multiple, i + 1,
                          [out |-> Append(acc.out, o), ok |-> ok])

\* mutant of vectorAddLoop: an entry that reaches 0 counts as an underflow
RECURSIVE vectorAddLoop_zeroUnderflows(_, _, _, _, _, _)
vectorAddLoop_zeroUnderflows(cap, s, delta, multiple, i, acc) ==
    IF i > Len(s) THEN acc
    ELSE LET o == jsAdd(s[i], jsMul(Elem(delta, i), multiple))
             c == Elem(cap, i)
             ok == IF ~jsLt(0, o) /\ o # NaN THEN FALSE
                   ELSE IF jsLt(0, c) /\ jsLt(jsSub(c, o), 0) THEN FALSE
                   ELSE acc.ok
         IN vectorAddLoop_zeroUnderflows(cap, s, delta, multiple, i + 1,
                          [out |-> Append(acc.out, o), ok |-> ok])

\* mutant of vectorAddLoop: the capacity is checked where the delta is not 0
RECURSIVE vectorAddLoop_touchedOnly(_, _, _, _, _, _)
vectorAddLoop_touchedOnly(cap, s, delta, multiple, i, acc) ==
    IF i > Len(s) THEN acc
    ELSE LET o == jsAdd(s[i], jsMul(Elem(delta, i), multiple))
             c == Elem(cap, i)
             ok == IF jsLt(o, 0) THEN FALSE
                   ELSE IF Elem(delta, i) # 0 /\ jsLt(0, c) /\ jsLt(jsSub(c, o), 0)
                   THEN FALSE
                   ELSE acc.ok
         IN vectorAddLoop_touchedOnly(cap, s, delta, multiple, i + 1,
                          [out |-> Append(acc.out, o), ok |-> ok])

\* mutant of vectorAddLoop: the capacity is not looked at
RECURSIVE vectorAddLoop_ignoresCapacity(_, _, _, _, _, _)
vectorAddLoop_ignoresCapacity(cap, s, delta, multiple, i, acc) ==
    IF i > Len(s) THEN acc
    ELSE LET o == jsAdd(s[i], jsMul(Elem(delta, i), multiple))
             ok == IF jsLt(o, 0) THEN FALSE ELSE acc.ok
         IN vectorAddLoop_ignoresCapacity(cap, s, delta, multiple, i + 1,
                          [out |-> Append(acc.out, o), ok |-> ok])

RECURSIVE vectorAddLoop(_, _, _, _, _, _)
vectorAddLoop(cap, s, delta, multiple, i, acc) ==
    IF i > Len(s) THEN acc
    ELSE LET o == jsAdd(s[i], jsMul(Elem(delta, i), multiple))
             c == Elem(cap, i)
             ok == IF jsLt(o, 0) THEN FALSE                          \* underflow
                   ELSE IF jsLt(0, c) /\ jsLt(jsSub(c, o), 0) THEN FALSE  \* overflow
                   ELSE acc.ok
         IN vectorAddLoop(cap, s, delta, multiple, i + 1,
                          [out |-> Append(acc.out, o), ok |-> ok])

vectorAdd(def, s, delta, multiple) ==
    vectorAddLoop(capacityVector(def), s, delta, multiple, 1,
                  [out |-> <<>>, ok |-> TRUE])

(***************************************************************************)
(* The firing engine                                                       *)
(***************************************************************************)
\* mutant of guardLoop: only the first guard is tried
RECURSIVE guardLoop_firstGuardOnly(_, _, _, _, _)
guardLoop_firstGuardOnly(def, guards, s, multiple, i) ==
    IF i > Len(guards) THEN [ok |-> FALSE]
    ELSE IF vectorAdd(def, s, guards[i].delta, multiple).ok
         THEN [ok |-> TRUE]
         ELSE [ok |-> FALSE]

\* the for loop of guardFails: returns at the first guard whose add is ok
RECURSIVE guardLoop(_, _, _, _, _)
guardLoop(def, guards, s, multiple, i) ==
    IF i > Len(guards) THEN [ok |-> FALSE]                       \* inhibitor inactive
    ELSE IF vectorAdd(def, s, guards[i].delta, multiple).ok
         THEN [ok |-> TRUE]                                      \* inhibitor active
         ELSE guardLoop(def, guards, s, multiple, i + 1)

\* guardFails of a transition the definition has (the asserts passed)
guardFails(def, s, action, multiple) ==
    guardLoop(def, Get(def.transitions, action).guards, s, multiple, 1)

\* mutant of testFire: the guards are not consulted
testFire_ignoresGuards(def, s, action, multiple) ==
    LET t == Get(def.transitions, action)
        res == vectorAdd(def, s, t.delta, multiple)
    IN [out |-> res.out, none |-> FALSE, ok |-> res.ok, role |-> t.role]

\* out: null is [none |-> TRUE]
testFire(def, s, action, multiple) ==
    LET t == Get(def.transitions, action)
    IN IF guardFails(def, s, action, multiple).ok
       THEN [out |-> <<>>, none |-> TRUE, ok |-> FALSE, role |-> t.role]
       ELSE LET res == vectorAdd(def, s, t.delta, multiple)
            IN [out |-> res.out, none |-> FALSE, ok |-> res.ok, role |-> t.role]

\* mutant of testFireRun: the tested marking is written into the state
testFireRun_commits(def, s, action, multiple) ==
    LET res == testFire(def, s, action, multiple)
    IN [res |-> res, state |-> IF res.ok THEN res.out ELSE s, def |-> def]

\* a testFire call as its caller sees it: what it returns, and the state
\* array and the definition it was given, neither of which it assigns to
testFireRun(def, s, action, multiple) ==
    [res |-> testFire(def, s, action, multiple), state |-> s, def |-> def]

\* mutant of guardFailsRun: the guard's delta is written into the transition
guardFailsRun_writesDelta(def, s, action, multiple) ==
    LET t == Get(def.transitions, action)
    IN [res |-> guardFails(def, s, action, multiple), state |-> s,
        def |-> IF t.guards = <<>> THEN def
                ELSE [def EXCEPT !.transitions =
                          Put(def.transitions, [t EXCEPT !.delta = t.guards[1].delta])]]

\* a guardFails call as its caller sees it
guardFailsRun(def, s, action, multiple) ==
    [res |-> guardFails(def, s, action, multiple), state |-> s, def |-> def]

\* mutant of fireStateMachine: two positive places are let through
fireStateMachine_twoOutputs(res) ==
    IF ~res.ok THEN res
    ELSE LET failsHardCap == \E i \in DOMAIN res.out : jsLt(1, res.out[i])
             elementaryOutputs == Cardinality({i \in DOMAIN res.out : jsLt(0, res.out[i])})
         IN [res EXCEPT !.ok = ~failsHardCap /\ elementaryOutputs < 3]

\* case PFlowModel.stateMachine
fireStateMachine(res) ==
    IF ~res.ok THEN res
    ELSE LET failsHardCap == \E i \in DOMAIN res.out : jsLt(1, res.out[i])
             elementaryOutputs == Cardinality({i \in DOMAIN res.out : jsLt(0, res.out[i])})
         IN [res EXCEPT !.ok = ~failsHardCap /\ elementaryOutputs < 2]

\* mutant of fireWorkflow: an underflow of the raw result still rejects
fireWorkflow_keepsUnderflow(def, res) ==
    LET failsWfCap == \E i \in DOMAIN res.out : jsLt(1, res.out[i])
        wfOutputs == Cardinality({i \in DOMAIN res.out : jsLt(0, res.out[i])})
        wfOut == [i \in 1..Len(def.places) |->
                    IF i \in DOMAIN res.out /\ jsLt(0, res.out[i]) THEN res.out[i] ELSE 0]
    IN [res EXCEPT !.out = wfOut, !.none = FALSE,
                   !.ok = res.ok /\ ~failsWfCap /\ wfOutputs < 2]

\* case PFlowModel.workflow
fireWorkflow(def, res) ==
    LET failsWfCap == \E i \in DOMAIN res.out : jsLt(1, res.out[i])
        wfOutputs == Cardinality({i \in DOMAIN res.out : jsLt(0, res.out[i])})
        wfOut == [i \in 1..Len(def.places) |->
                    IF i \in DOMAIN res.out /\ jsLt(0, res.out[i]) THEN res.out[i] ELSE 0]
    IN [res EXCEPT !.out = wfOut, !.none = FALSE,
                   !.ok = ~failsWfCap /\ wfOutputs < 2]

\* mutant of fire: the result is written to the caller's vector before ok is read
fire_commitsFirst(def, s, action, multiple, resolve, reject) ==
    LET res0 == testFire(def, s, action, multiple)
        res == IF def.type = stateMachine THEN fireStateMachine(res0)
               ELSE IF def.type = workflow THEN fireWorkflow(def, res0)
               ELSE res0
    IN [threw |-> FALSE, error |-> "",
        state |-> [i \in 1..(IF Len(res.out) > Len(s) THEN Len(res.out) ELSE Len(s)) |->
                      IF i <= Len(res.out) THEN res.out[i] ELSE s[i]],
        calls |-> IF res.ok /\ resolve THEN <<"resolve">>
                  ELSE IF ~res.ok /\ reject THEN <<"reject">>
                  ELSE <<>>,
        res |-> res]

\* mutant of fire: reject is invoked whenever it was passed
fire_alwaysRejects(def, s, action, multiple, resolve, reject) ==
    LET res0 == testFire(def, s, action, multiple)
        res == IF def.type = stateMachine THEN fireStateMachine(res0)
               ELSE IF def.type = workflow THEN fireWorkflow(def, res0)
               ELSE res0
    IN [threw |-> FALSE, error |-> "",
        state |-> IF res.ok THEN [i \in 1..(IF Len(res.out) > Len(s) THEN Len(res.out) ELSE Len(s)) |->
                                    IF i <= Len(res.out) THEN res.out[i] ELSE s[i]]
                  ELSE s,
        calls |-> (IF res.ok /\ resolve THEN <<"resolve">> ELSE <<>>)
                  \o (IF reject THEN <<"reject">> ELSE <<>>),
        res |-> res]

\* for (const i in res.out) fireArgs.state[i] = res.out[i]
fireCommit(s, out) ==
    [i \in 1..(IF Len(out) > Len(s) THEN Len(out) ELSE Len(s)) |->
        IF i <= Len(out) THEN out[i] ELSE s[i]]

\* the names def.transitions, a plain object, inherits from Object.prototype:
\* def.transitions[name] is then a value that passes assert(t) and has no
\* guards, no delta and no role
ObjectPrototypeKeys == {"constructor"}

\* role(label): def.roles[label] is read as a property, so an inherited name
\* is found without being a key and is returned as it is; own says whether
\* what is returned is a role object of the registry
role(def, label) ==
    IF HasKey(def.roles, label) THEN [def |-> def, own |-> TRUE]
    ELSE IF label \in ObjectPrototypeKeys THEN [def |-> def, own |-> FALSE]
    ELSE [def |-> [def EXCEPT !.roles = Put(@, [label |-> label])], own |-> TRUE]

\* fire(fireArgs, resolve, reject): resolve and reject say whether the caller
\* passed the callback; calls lists the callbacks invoked, state is the
\* caller's vector after the call.  A name that is no key of def.transitions
\* fails the assert of guardFails (Error); an inherited name passes it, finds
\* no guards, and vectorAdd reads delta[i] of undefined (TypeError) unless the
\* vector is empty, when it returns {out: [], ok: true}
fire(def, s, action, multiple, resolve, reject) ==
    LET own == HasKey(def.transitions, action)
        inherited == ~own /\ action \in ObjectPrototypeKeys
    IN IF ~own /\ ~(inherited /\ s = <<>>)
       THEN [threw |-> TRUE, error |-> IF inherited THEN "TypeError" ELSE "Error",
             state |-> s, calls |-> <<>>,
             res |-> [out |-> <<>>, none |-> TRUE, ok |-> FALSE, role |-> ""]]
       ELSE LET res0 == IF own THEN testFire(def, s, action, multiple)
                        ELSE [out |-> <<>>, none |-> FALSE, ok |-> TRUE, role |-> ""]
                res == IF def.type = stateMachine THEN fireStateMachine(res0)
                       ELSE IF def.type = workflow THEN fireWorkflow(def, res0)
                       ELSE res0
            IN [threw |-> FALSE, error |-> "",
                state |-> IF res.ok THEN fireCommit(s, res.out) ELSE s,
                calls |-> IF res.ok /\ resolve THEN <<"resolve">>
                          ELSE IF ~res.ok /\ reject THEN <<"reject">>
                          ELSE <<>>,
                res |-> res]

(***************************************************************************)
(* Declarations and pflowModel                                             *)
(***************************************************************************)
\* the calls a declaration function makes on the DSL, in program order
CellCall(label, initial, capacity) ==
    [op |-> "cell", a |-> label, b |-> "", n |-> initial, m |-> capacity]
FnCall(label, r) ==
    [op |-> "fn", a |-> label, b |-> r, n |-> 0, m |-> 0]
TxCall(source, weight, target) ==
    [op |-> "tx", a |-> source, b |-> target, n |-> weight, m |-> 0]
RoleCall(label) ==
    [op |-> "role", a |-> label, b |-> "", n |-> 0, m |-> 0]
GuardCall(source, weight, target) ==
    [op |-> "guard", a |-> source, b |-> target, n |-> weight, m |-> 0]

\* the handle a declaration holds for a label
getNode(def, label) ==
    IF HasKey(def.transitions, label) THEN TransitionNode(label)
    ELSE PlaceNode(label)

declareCall(def, c) ==
    IF c.op = "cell" THEN [def |-> cell(def, c.a, c.n, c.m), threw |-> FALSE]
    ELSE IF c.op = "role" THEN [def |-> role(def, c.a).def, threw |-> FALSE]
    ELSE IF c.op = "fn" THEN [def |-> fn(def, c.a, c.b), threw |-> FALSE]
    ELSE IF c.op = "guard" THEN cell_guard(def, c.a, c.n, getNode(def, c.b))
    ELSE IF getNode(def, c.a).kind = "place"
         THEN cell_tx(def, c.a, c.n, getNode(def, c.b))
         ELSE fn_tx(def, c.a, c.n, getNode(def, c.b))

\* declaration({fn, cell, role}): an assertion that fails ends the run
RECURSIVE declare(_, _, _)
declare(def, calls, i) ==
    IF i > Len(calls) THEN [def |-> def, threw |-> FALSE]
    ELSE LET r == declareCall(def, calls[i])
         IN IF r.threw THEN r ELSE declare(r.def, calls, i + 1)

\* pflowModel({schema, declaration, type}) for a declaration function
pflowModel(schema, declaration, type) ==
    LET d == declare(NewDef(schema, type), declaration, 1)
        r == index(d.def)
    IN IF d.threw \/ r.threw \/ ~r.ok
       THEN [threw |-> TRUE, def |-> d.def]
       ELSE [threw |-> FALSE, def |-> r.def]

(***************************************************************************)
(* Declarations explored by a direct caller: two places, one transition t, *)
(* any arc (none, p -> t, t -> p) and any inhibitor arc per place          *)
(***************************************************************************)
ArcKinds == {"none", "in", "out"}

PlaceArcs(p, kind, inhibit, w) ==
    (IF kind = "in" THEN <<TxCall(p, w, "t")>>
     ELSE IF kind = "out" THEN <<TxCall("t", w, p)>>
     ELSE <<>>)
    \o (IF inhibit THEN <<GuardCall(p, w, "t")>> ELSE <<>>)

CallerDeclaration(init, cap, kind, inhibit, w) ==
    <<CellCall("p1", init[1], cap[1]), CellCall("p2", init[2], cap[2]),
      FnCall("t", "default")>>
    \o PlaceArcs("p1", kind[1], inhibit[1], w)
    \o PlaceArcs("p2", kind[2], inhibit[2], w)

NoRes == [out |-> <<>>, none |-> TRUE, ok |-> FALSE, role |-> ""]

NoCall ==
    [op |-> "none", action |-> "", multiple |-> 0, pre |-> <<>>,
     delta |-> <<>>, guard |-> FALSE, test |-> NoRes, res |-> NoRes,
     calls |-> <<>>]

StreamIdle ==
    /\ models = <<>>
    /\ state = <<>>
    /\ heap = <<>>
    /\ seq = 0
    /\ history = <<>>
    /\ eventHandlers = <<>>
    /\ trace = <<>>

InitFire ==
    /\ StreamIdle
    /\ \E init \in [1..2 -> 0..MaxTok], cap \in [1..2 -> {0, MaxCap}],
          kind \in [1..2 -> ArcKinds], inhibit \in [1..2 -> BOOLEAN],
          w \in 1..MaxMult, type \in PFlowModel :
          LET m == pflowModel("caller", CallerDeclaration(init, cap, kind, inhibit, w), type)
          IN /\ ~m.threw
             /\ model = m.def
             /\ vec = initialVector(m.def)
    /\ call = NoCall

\* the caller's vector is within the explored range
InRange(v) == \A i \in DOMAIN v : v[i] \in 0..MaxTok

\* model.fire({state, action, multiple}, resolve, reject); guard and test are
\* what the guardFails and testFire calls inside it returned
FireCall(action, multiple) ==
    /\ InRange(vec)
    /\ LET r == fire(model, vec, action, multiple, TRUE, TRUE)
       IN /\ ~r.threw
          /\ vec' = r.state
          /\ call' = [op |-> "fire", action |-> action, multiple |-> multiple,
                      pre |-> vec, delta |-> <<>>,
                      guard |-> guardFails(model, vec, action, multiple).ok,
                      test |-> testFire(model, vec, action, multiple),
                      res |-> r.res, calls |-> r.calls]
    /\ UNCHANGED model
    /\ UNCHANGED streamVars

NextFire == \E multiple \in 1..MaxMult : FireCall("t", multiple)

SpecFire == InitFire /\ [][NextFire]_vars

(***************************************************************************)
(* A caller of model.testFire and model.guardFails: any marking of the     *)
(* net, the first place unbounded and the second bounded                   *)
(***************************************************************************)
InitTest ==
    /\ StreamIdle
    /\ \E kind \in [1..2 -> ArcKinds], inhibit \in [1..2 -> BOOLEAN],
          w \in 1..MaxMult :
          LET m == pflowModel("caller",
                      CallerDeclaration(<<0, 0>>, <<0, MaxCap>>, kind, inhibit, w),
                      petriNet)
          IN ~m.threw /\ model = m.def
    /\ vec \in [1..2 -> 0..MaxTok]
    /\ call = NoCall

\* model.testFire({state, action, multiple})
TestFireCall(action, multiple) ==
    /\ LET r == testFireRun(model, vec, action, multiple)
       IN /\ vec' = r.state
          /\ model' = r.def
          /\ call' = [NoCall EXCEPT !.op = "testFire", !.action = action,
                                    !.multiple = multiple, !.pre = vec,
                                    !.res = r.res]
    /\ UNCHANGED streamVars

\* model.guardFails({state, action, multiple})
GuardFailsCall(action, multiple) ==
    /\ LET r == guardFailsRun(model, vec, action, multiple)
       IN /\ vec' = r.state
          /\ model' = r.def
          /\ call' = [NoCall EXCEPT !.op = "guardFails", !.action = action,
                                    !.multiple = multiple, !.pre = vec,
                                    !.guard = r.res.ok]
    /\ UNCHANGED streamVars

NextTest ==
    \E multiple \in 1..MaxMult :
        \/ TestFireCall("t", multiple)
        \/ GuardFailsCall("t", multiple)

SpecTest == InitTest /\ [][NextTest]_vars

(***************************************************************************)
(* The tic-tac-toe net of defaultCodeSample, fired by a caller             *)
(***************************************************************************)
\* board[i][j] is the place labelled i j, in the order row(0), row(1), row(2)
Board == <<"00", "01", "02", "10", "11", "12", "20", "21", "22">>

NextPlayer(marking) == IF marking = "X" THEN "O" ELSE "X"

\* mutant of MoveCalls: the move does not take the turn of its player
MoveCalls_keepsTurn(ij, marking) ==
    <<FnCall(marking \o ij, marking),
      TxCall(ij, 1, marking \o ij),
      TxCall(marking \o ij, 1, NextPlayer(marking))>>

\* the body of the innermost loop: the move of one player on one cell
MoveCalls(ij, marking) ==
    <<FnCall(marking \o ij, marking),
      TxCall(marking, 1, marking \o ij),
      TxCall(ij, 1, marking \o ij),
      TxCall(marking \o ij, 1, NextPlayer(marking))>>

RECURSIVE BoardCalls(_)
BoardCalls(k) ==
    IF k > Len(Board) THEN <<>>
    ELSE MoveCalls(Board[k], "X") \o MoveCalls(Board[k], "O") \o BoardCalls(k + 1)

\* the calls the declaration of the sample makes, in order
defaultCodeSample ==
    [k \in DOMAIN Board |-> CellCall(Board[k], 1, 1)]
    \o <<CellCall("X", 1, 1), RoleCall("X"), CellCall("O", 0, 1), RoleCall("O")>>
    \o BoardCalls(1)

Moves == {marking \o Board[k] : marking \in {"X", "O"}, k \in DOMAIN Board}

InitTicTacToe ==
    /\ StreamIdle
    /\ LET m == pflowModel("tictactoe", defaultCodeSample, petriNet)
       IN /\ ~m.threw
          /\ model = m.def
          /\ vec = initialVector(m.def)
    /\ call = NoCall

\* model.fire({state, action, multiple: 1}, resolve, reject) on the sample
MoveCall(action) ==
    /\ \E r \in {fire(model, vec, action, 1, TRUE, TRUE)} :
          /\ ~r.threw
          /\ vec' = r.state
          /\ call' = [NoCall EXCEPT !.op = "fire", !.action = action,
                                    !.multiple = 1, !.pre = vec,
                                    !.res = r.res, !.calls = r.calls]
    /\ UNCHANGED model
    /\ UNCHANGED streamVars

NextTicTacToe == \E action \in Moves : MoveCall(action)

SpecTicTacToe == InitTicTacToe /\ [][NextTicTacToe]_vars

(***************************************************************************)
(* A caller of model.vectorAdd: any state and delta of the net's length    *)
(***************************************************************************)
InitAdd ==
    /\ StreamIdle
    /\ \E cap \in [1..2 -> {0, MaxCap}] :
          LET m == pflowModel("caller",
                      CallerDeclaration(<<0, 0>>, cap, <<"none", "none">>,
                                        <<FALSE, FALSE>>, 1), petriNet)
          IN ~m.threw /\ model = m.def
    /\ vec \in [1..2 -> (0 - 1)..MaxTok]
    /\ call = NoCall

\* model.vectorAdd(state, delta, multiple)
VectorAddCall(delta, multiple) ==
    /\ LET r == vectorAdd(model, vec, delta, multiple)
       IN call' = [NoCall EXCEPT !.op = "vectorAdd", !.multiple = multiple,
                                 !.pre = vec, !.delta = delta,
                                 !.res = [out |-> r.out, none |-> FALSE,
                                          ok |-> r.ok, role |-> ""]]
    /\ UNCHANGED <<model, vec>>
    /\ UNCHANGED streamVars

NextAdd ==
    \E delta \in [1..2 -> (0 - MaxMult)..MaxMult], multiple \in 1..MaxMult :
        VectorAddCall(delta, multiple)

SpecAdd == InitAdd /\ [][NextAdd]_vars

(***************************************************************************)
(* PFlowStream                                                             *)
(*                                                                         *)
(* A stream value S holds the fields of the object; state and the history  *)
(* entries hold references into heap, because fire writes into the array   *)
(* it is given and dispatch stores the array fire returns.                 *)
(***************************************************************************)
Handlers == {"h1"}

NoArg == [out |-> <<>>, none |-> TRUE]

NoEvent == [schema |-> "", action |-> "", multiple |-> 0]

\* one effect of a stream call, in program order
Step(step, key, handler, n, arg) ==
    [step |-> step, key |-> key, handler |-> handler, seq |-> n, arg |-> arg]

\* this.state as schema -> marking
Markings(S) == [k \in DOMAIN S.state |-> S.heap[S.state[k]]]

\* this.history with the state of each entry read through its reference
HistoryView(S) ==
    [i \in DOMAIN S.history |->
        [seq |-> S.history[i].seq, event |-> S.history[i].event,
         state |-> S.heap[S.history[i].state]]]

Snapshot(S) ==
    [markings |-> Markings(S), history |-> HistoryView(S), seq |-> S.seq,
     eventHandlers |-> S.eventHandlers]

NoTrace ==
    [op |-> "new", evt |-> NoEvent, threw |-> "", res |-> NoRes, log |-> <<>>,
     before |-> [markings |-> <<>>, history |-> <<>>, seq |-> 0,
                 eventHandlers |-> <<>>]]

\* new PFlowStream(models)
PFlowStream(ms) ==
    [models |-> [k \in {ms[i].schema : i \in DOMAIN ms} |->
                    ms[CHOOSE i \in DOMAIN ms :
                          /\ ms[i].schema = k
                          /\ \A j \in DOMAIN ms : ms[j].schema = k => j <= i]],
     state |-> <<>>, heap |-> <<>>, seq |-> 0, history |-> <<>>,
     eventHandlers |-> <<>>, trace |-> NoTrace]

\* mutant of setHandler: a slot that is taken keeps its handler
setHandler_keepsFirst(S, key, handler) ==
    [S EXCEPT !.eventHandlers = @ @@ (key :> handler),
              !.trace = [NoTrace EXCEPT !.op = "on", !.before = Snapshot(S),
                                        !.log = <<Step("set", key, handler, 0, NoArg)>>]]

\* dispatcher.on / onFail / onEvery: eventHandlers.set(key, handler)
setHandler(S, key, handler) ==
    [S EXCEPT !.eventHandlers = (key :> handler) @@ @,
              !.trace = [NoTrace EXCEPT !.op = "on", !.before = Snapshot(S),
                                        !.log = <<Step("set", key, handler, 0, NoArg)>>]]

\* dispatcher.off: eventHandlers.delete(action)
off(S, action) ==
    [S EXCEPT !.eventHandlers = [k \in (DOMAIN @) \ {action} |-> @[k]],
              !.trace = [NoTrace EXCEPT !.op = "off", !.before = Snapshot(S),
                                        !.log = <<Step("delete", action, "", 0, NoArg)>>]]

\* observers that raise when they are invoked
ThrowingHandlers == {"boom"}

\* some observer of the calls raises
Throws(calls) == \E i \in DOMAIN calls : calls[i].handler \in ThrowingHandlers

\* mutant of UntilThrow: the observers after one that raises are invoked
UntilThrow_callsAll(calls) == calls

\* the observer calls made: an observer that raises ends the callback, so
\* the calls after it are not made
UntilThrow(calls) ==
    IF ~Throws(calls) THEN calls
    ELSE SubSeq(calls, 1, CHOOSE i \in DOMAIN calls :
                              /\ calls[i].handler \in ThrowingHandlers
                              /\ \A j \in 1..(i - 1) :
                                    calls[j].handler \notin ThrowingHandlers)

\* mutant of dispatchResolve: the marking is stored under every schema held
dispatchResolve_everySchema(S, evt, res) ==
    LET ref == Len(S.heap) + 1
        arg == [out |-> res.out, none |-> res.none]
        h == S.eventHandlers
        onEvery == IF "__onEvery__" \in DOMAIN h
                   THEN <<Step("call", "__onEvery__", h["__onEvery__"], 0, arg)>>
                   ELSE <<>>
        callback == IF evt.action \in DOMAIN h
                    THEN <<Step("call", evt.action, h[evt.action], 0, arg)>>
                    ELSE <<>>
        reload == IF "__onReload__" \in DOMAIN h
                  THEN <<Step("call", "__onReload__", h["__onReload__"], 0, NoArg)>>
                  ELSE <<>>
    IN [S EXCEPT
          !.heap = Append(@, res.out),
          !.state = [k \in (DOMAIN @) \cup {evt.schema} |-> ref],
          !.history = Append(@, [seq |-> S.seq, event |-> evt, state |-> ref]),
          !.seq = @ + 1,
          !.trace = [op |-> "dispatch", evt |-> evt, res |-> res,
                     threw |-> IF Throws(onEvery \o callback \o reload)
                               THEN "ObserverError"
                               ELSE IF "__onReload__" \in DOMAIN h THEN ""
                               ELSE "TypeError",
                     log |-> <<Step("persist", evt.schema, "", 0, arg),
                               Step("history", evt.schema, "", S.seq, arg)>>
                             \o UntilThrow(onEvery \o callback \o reload),
                     before |-> S.trace.before]]

\* the resolve callback of dispatch: fire has already written res.out into
\* the array it was given
dispatchResolve(S, evt, res) ==
    LET ref == Len(S.heap) + 1
        arg == [out |-> res.out, none |-> res.none]
        h == S.eventHandlers
        onEvery == IF "__onEvery__" \in DOMAIN h
                   THEN <<Step("call", "__onEvery__", h["__onEvery__"], 0, arg)>>
                   ELSE <<>>
        callback == IF evt.action \in DOMAIN h
                    THEN <<Step("call", evt.action, h[evt.action], 0, arg)>>
                    ELSE <<>>
        reload == IF "__onReload__" \in DOMAIN h
                  THEN <<Step("call", "__onReload__", h["__onReload__"], 0, NoArg)>>
                  ELSE <<>>
    IN [S EXCEPT
          !.heap = Append(@, res.out),
          !.state = (evt.schema :> ref) @@ @,
          !.history = Append(@, [seq |-> S.seq, event |-> evt, state |-> ref]),
          !.seq = @ + 1,
          !.trace = [op |-> "dispatch", evt |-> evt, res |-> res,
                     threw |-> IF Throws(onEvery \o callback \o reload)
                               THEN "ObserverError"
                               ELSE IF "__onReload__" \in DOMAIN h THEN ""
                               ELSE "TypeError",
                     log |-> <<Step("persist", evt.schema, "", 0, arg),
                               Step("history", evt.schema, "", S.seq, arg)>>
                             \o UntilThrow(onEvery \o callback \o reload),
                     before |-> S.trace.before]]

\* the reject callback of dispatch: dispatcher.fail(this, res)
dispatchReject(S, evt, res) ==
    LET h == S.eventHandlers
        arg == [out |-> res.out, none |-> res.none]
    IN [S EXCEPT
          !.trace = [op |-> "dispatch", evt |-> evt, res |-> res,
                     threw |-> IF "__onFail__" \notin DOMAIN h THEN "TypeError"
                               ELSE IF h["__onFail__"] \in ThrowingHandlers
                               THEN "ObserverError"
                               ELSE "",
                     log |-> IF "__onFail__" \in DOMAIN h
                             THEN <<Step("call", "__onFail__", h["__onFail__"], 0, arg)>>
                             ELSE <<>>,
                     before |-> S.trace.before]]

\* a dispatch that throws before fire decides
dispatchError(S, evt, error) ==
    [S EXCEPT !.trace = [op |-> "dispatch", evt |-> evt, res |-> NoRes,
                         threw |-> error, log |-> <<>>,
                         before |-> S.trace.before]]

\* PFlowStream.dispatch(evt)
dispatch(S0, evt) ==
    LET S == [S0 EXCEPT !.trace = [NoTrace EXCEPT !.before = Snapshot(S0)]]
    IN IF evt.schema \notin DOMAIN S.models THEN dispatchError(S, evt, "Error")
       ELSE LET def == S.models[evt.schema]
                held == evt.schema \in DOMAIN S.state
                s == IF held THEN S.heap[S.state[evt.schema]] ELSE initialVector(def)
                r == fire(def, s, evt.action, evt.multiple, TRUE, TRUE)
            IN IF r.threw THEN dispatchError(S, evt, r.error)
               ELSE IF r.calls = <<"resolve">>
               THEN dispatchResolve(
                        IF held THEN [S EXCEPT !.heap[S.state[evt.schema]] = r.state]
                        ELSE S,
                        evt, r.res)
               ELSE dispatchReject(S, evt, r.res)

\* mutant of restart: the persisted markings are kept
restart_keepsMarkings(S) ==
    [S EXCEPT !.seq = 0, !.history = <<>>,
              !.trace = [NoTrace EXCEPT !.op = "restart", !.before = Snapshot(S)]]

\* mutant of restart: the counter is not reset
restart_keepsSeq(S) ==
    [S EXCEPT !.history = <<>>,
              !.state = [k \in (DOMAIN @) \ (DOMAIN S.models) |-> @[k]],
              !.heap = IF (DOMAIN S.state) \subseteq (DOMAIN S.models) THEN <<>> ELSE @,
              !.trace = [NoTrace EXCEPT !.op = "restart", !.before = Snapshot(S)]]

\* PFlowStream.restart(): no array of the heap stays referenced
restart(S) ==
    [S EXCEPT !.seq = 0, !.history = <<>>,
              !.state = [k \in (DOMAIN @) \ (DOMAIN S.models) |-> @[k]],
              !.heap = IF (DOMAIN S.state) \subseteq (DOMAIN S.models) THEN <<>> ELSE @,
              !.trace = [NoTrace EXCEPT !.op = "restart", !.before = Snapshot(S)]]

(***************************************************************************)
(* The streams explored: one net of the caller's family under schema "a"   *)
(***************************************************************************)
\* p1(init) -> t -> p2(0), the net of the end-to-end scenarios
ChainNet(init, type) ==
    pflowModel("a", CallerDeclaration(<<init, 0>>, <<0, 0>>, <<"in", "out">>,
                                      <<FALSE, FALSE>>, 1), type).def

\* the same with an inhibitor arc from p2 to t
InhibitedNet(init, type) ==
    pflowModel("a", CallerDeclaration(<<init, 0>>, <<0, 0>>, <<"in", "out">>,
                                      <<FALSE, TRUE>>, 1), type).def

\* t -> p2 with p2 bounded, p1 untouched
SourceNet(init, type) ==
    pflowModel("a", CallerDeclaration(<<init, 0>>, <<0, MaxCap>>, <<"none", "out">>,
                                      <<FALSE, FALSE>>, 1), type).def

\* t -> p1, and p2 declared with more tokens than its capacity
OverfullNet(type) ==
    pflowModel("a", CallerDeclaration(<<0, MaxCap + 1>>, <<0, MaxCap>>, <<"out", "none">>,
                                      <<FALSE, FALSE>>, 1), type).def

\* a transition t and no place
EmptyNet(type) == pflowModel("a", <<FnCall("t", "default")>>, type).def

StreamNets ==
    {ChainNet(init, type) : init \in 0..MaxTok, type \in PFlowModel}
    \cup {OverfullNet(type) : type \in PFlowModel}
    \cup {InhibitedNet(init, type) : init \in 1..MaxTok + 1, type \in PFlowModel}
    \cup {SourceNet(init, type) : init \in 0..1, type \in PFlowModel}

Stream ==
    [models |-> models, state |-> state, heap |-> heap, seq |-> seq,
     history |-> history, eventHandlers |-> eventHandlers, trace |-> trace]

SetStream(S) ==
    /\ models' = S.models
    /\ state' = S.state
    /\ heap' = S.heap
    /\ seq' = S.seq
    /\ history' = S.history
    /\ eventHandlers' = S.eventHandlers
    /\ trace' = S.trace

Init ==
    /\ \E net \in StreamNets : LET S == PFlowStream(<<net>>)
                               IN /\ models = S.models
                                  /\ state = S.state
                                  /\ heap = S.heap
                                  /\ seq = S.seq
                                  /\ history = S.history
                                  /\ eventHandlers = S.eventHandlers
                                  /\ trace = S.trace
    /\ model = NewDef("", petriNet)
    /\ vec = <<>>
    /\ call = NoCall

Actions == {"t", "x", "constructor"}
Schemas == {"a", "nope"}

\* stream.dispatch({schema, action, multiple})
Dispatch(evt) ==
    /\ seq < MaxHist
    /\ SetStream(dispatch(Stream, evt))
    /\ UNCHANGED callerVars

\* stream.restart()
Restart ==
    /\ SetStream(restart(Stream))
    /\ UNCHANGED callerVars

\* stream.dispatcher.on(action, handler)
On(action, handler) ==
    /\ SetStream(setHandler(Stream, action, handler))
    /\ UNCHANGED callerVars

\* stream.dispatcher.off(action)
Off(action) ==
    /\ SetStream(off(Stream, action))
    /\ UNCHANGED callerVars

\* stream.dispatcher.onFail(handler)
OnFail(handler) ==
    /\ SetStream(setHandler(Stream, "__onFail__", handler))
    /\ UNCHANGED callerVars

\* stream.dispatcher.onEvery(handler)
OnEvery(handler) ==
    /\ SetStream(setHandler(Stream, "__onEvery__", handler))
    /\ UNCHANGED callerVars

Next ==
    \/ \E schema \in Schemas, action \in Actions, multiple \in 1..MaxMult :
          Dispatch([schema |-> schema, action |-> action, multiple |-> multiple])
    \/ Restart
    \/ \E action \in {"t", "__onReload__"}, handler \in Handlers : On(action, handler)
    \/ \E action \in {"t", "__onReload__"} : Off(action)
    \/ \E handler \in Handlers : OnFail(handler)
    \/ \E handler \in Handlers : OnEvery(handler)

Spec == Init /\ [][Next]_vars

(***************************************************************************)
(* A stream whose observers are registered, replaced and removed between   *)
(* dispatches                                                              *)
(***************************************************************************)
ObserverHandlers == {"h1", "h2"}

InitObservers ==
    /\ LET S == PFlowStream(<<ChainNet(MaxTok, petriNet)>>)
       IN /\ models = S.models
          /\ state = S.state
          /\ heap = S.heap
          /\ seq = S.seq
          /\ history = S.history
          /\ eventHandlers = S.eventHandlers
          /\ trace = S.trace
    /\ model = NewDef("", petriNet)
    /\ vec = <<>>
    /\ call = NoCall

NextObservers ==
    \/ \E multiple \in 1..MaxMult :
          Dispatch([schema |-> "a", action |-> "t", multiple |-> multiple])
    \/ \E action \in {"t", "__onReload__"}, handler \in ObserverHandlers :
          On(action, handler)
    \/ \E action \in {"t", "__onReload__"} : Off(action)
    \/ \E handler \in ObserverHandlers : OnFail(handler)
    \/ \E handler \in ObserverHandlers : OnEvery(handler)

SpecObservers == InitObservers /\ [][NextObservers]_vars

(***************************************************************************)
(* A declaration that defines roles                                        *)
(***************************************************************************)
RoleLabels == {"X", "O", "default", "admin", "constructor"}

InitRole ==
    /\ StreamIdle
    /\ model = NewDef("caller", petriNet)
    /\ vec = <<>>
    /\ call = NoCall

\* role(label); res.role is the label asked for and res.none says that what
\* came back is no role object of the registry
DefineRole(label) ==
    /\ LET r == role(model, label)
       IN /\ model' = r.def
          /\ call' = [NoCall EXCEPT !.op = "role", !.action = label,
                                    !.res = [NoRes EXCEPT !.none = ~r.own,
                                                          !.role = label]]
    /\ UNCHANGED vec
    /\ UNCHANGED streamVars

NextRole == \E label \in RoleLabels : DefineRole(label)

SpecRole == InitRole /\ [][NextRole]_vars

(***************************************************************************)
(* A caller that adds a delta and then the negated delta                   *)
(***************************************************************************)
\* r = model.vectorAdd(state, delta, multiple) and, when r.ok,
\* model.vectorAdd(r.out, delta.map(d => -d), multiple); test is what the
\* first call returned and res what the second did
RoundTripCall(delta, multiple) ==
    /\ LET r == vectorAdd(model, vec, delta, multiple)
           inverse == [i \in DOMAIN delta |-> 0 - delta[i]]
           back == vectorAdd(model, r.out, inverse, multiple)
       IN /\ r.ok
          /\ call' = [NoCall EXCEPT !.op = "roundTrip", !.multiple = multiple,
                                    !.pre = vec, !.delta = delta,
                                    !.test = [out |-> r.out, none |-> FALSE,
                                              ok |-> r.ok, role |-> ""],
                                    !.res = [out |-> back.out, none |-> FALSE,
                                             ok |-> back.ok, role |-> ""]]
    /\ UNCHANGED <<model, vec>>
    /\ UNCHANGED streamVars

NextRoundTrip ==
    \E delta \in [1..2 -> (0 - MaxMult)..MaxMult], multiple \in 1..MaxMult :
        RoundTripCall(delta, multiple)

SpecRoundTrip == InitAdd /\ [][NextRoundTrip]_vars

(***************************************************************************)
(* A stream whose registered net is replaced                               *)
(***************************************************************************)
\* mutant of update: the marking held for the schema is dropped
update_dropsMarking(S, m) ==
    [S EXCEPT !.models = (m.schema :> m) @@ @,
              !.state = [k \in (DOMAIN @) \ {m.schema} |-> @[k]],
              !.trace = [NoTrace EXCEPT !.op = "update", !.before = Snapshot(S),
                                        !.evt = [NoEvent EXCEPT !.schema = m.schema]]]

\* dispatcher.update(model): this.models.set(model.def.schema, model)
update(S, m) ==
    [S EXCEPT !.models = (m.schema :> m) @@ @,
              !.trace = [NoTrace EXCEPT !.op = "update", !.before = Snapshot(S),
                                        !.evt = [NoEvent EXCEPT !.schema = m.schema]]]

\* p1(1) -> t, a net of one place
OnePlaceNet(type) ==
    pflowModel("a", <<CellCall("p1", 1, 0), FnCall("t", "default"),
                      TxCall("p1", 1, "t")>>, type).def

\* p1(1) -> t -> p3(0) with p2(0) untouched, a net of three places
ThreePlaceNet(type) ==
    pflowModel("a", <<CellCall("p1", 1, 0), CellCall("p2", 0, 0), CellCall("p3", 0, 0),
                      FnCall("t", "default"), TxCall("p1", 1, "t"),
                      TxCall("t", 1, "p3")>>, type).def

\* the nets an edited declaration is saved as
UpdateNets ==
    {OnePlaceNet(petriNet), ThreePlaceNet(petriNet), ThreePlaceNet(workflow),
     ChainNet(MaxTok, petriNet)}

InitUpdate ==
    /\ \E type \in PFlowModel : LET S == PFlowStream(<<ChainNet(1, type)>>)
                                 IN /\ models = S.models
                                    /\ state = S.state
                                    /\ heap = S.heap
                                    /\ seq = S.seq
                                    /\ history = S.history
                                    /\ eventHandlers = S.eventHandlers
                                    /\ trace = S.trace
    /\ model = NewDef("", petriNet)
    /\ vec = <<>>
    /\ call = NoCall

\* stream.dispatcher.update(model)
Update(m) ==
    /\ SetStream(update(Stream, m))
    /\ UNCHANGED callerVars

NextUpdate ==
    \/ \E action \in Actions, multiple \in 1..MaxMult :
          Dispatch([schema |-> "a", action |-> action, multiple |-> multiple])
    \/ Restart
    \/ \E m \in UpdateNets : Update(m)

SpecUpdate == InitUpdate /\ [][NextUpdate]_vars

(***************************************************************************)
(* A stream that holds two nets, under the schemas "a" and "b"             *)
(***************************************************************************)
\* t -> p2 with p2 bounded, under schema "b"
SourceNetB(w) ==
    pflowModel("b", CallerDeclaration(<<0, 0>>, <<0, MaxCap>>, <<"none", "out">>,
                                      <<FALSE, FALSE>>, w), petriNet).def

\* the nets an edited declaration is saved as, one for each schema
MultiUpdateNets == {ThreePlaceNet(petriNet), SourceNetB(2)}

InitMulti ==
    /\ LET S == PFlowStream(<<ChainNet(MaxTok, petriNet), SourceNetB(1)>>)
       IN /\ models = S.models
          /\ state = S.state
          /\ heap = S.heap
          /\ seq = S.seq
          /\ history = S.history
          /\ eventHandlers = S.eventHandlers
          /\ trace = S.trace
    /\ model = NewDef("", petriNet)
    /\ vec = <<>>
    /\ call = NoCall

NextMulti ==
    \/ \E schema \in {"a", "b"}, multiple \in 1..MaxMult :
          Dispatch([schema |-> schema, action |-> "t", multiple |-> multiple])
    \/ \E m \in MultiUpdateNets : Update(m)
    \/ \E handler \in Handlers : On("__onReload__", handler)
    \/ \E handler \in Handlers : OnFail(handler)

SpecMulti == InitMulti /\ [][NextMulti]_vars

(***************************************************************************)
(* A stream some of whose observers raise                                  *)
(***************************************************************************)
RaisingHandlers == {"h1"} \cup ThrowingHandlers

InitRaising ==
    /\ LET S == PFlowStream(<<ChainNet(1, petriNet)>>)
       IN /\ models = S.models
          /\ state = S.state
          /\ heap = S.heap
          /\ seq = S.seq
          /\ history = S.history
          /\ eventHandlers = S.eventHandlers
          /\ trace = S.trace
    /\ model = NewDef("", petriNet)
    /\ vec = <<>>
    /\ call = NoCall

NextRaising ==
    \/ \E multiple \in 1..MaxMult :
          Dispatch([schema |-> "a", action |-> "t", multiple |-> multiple])
    \/ Restart
    \/ \E action \in {"t", "__onReload__"}, handler \in RaisingHandlers :
          On(action, handler)
    \/ \E handler \in RaisingHandlers : OnFail(handler)
    \/ \E handler \in RaisingHandlers : OnEvery(handler)

SpecRaising == InitRaising /\ [][NextRaising]_vars

(***************************************************************************)
(* A stream over a net that has transitions labelled like observer slots   *)
(***************************************************************************)
ReservedLabels == {"__onFail__", "__onEvery__"}

\* p1(init) -> x -> p2 for the transitions t, __onFail__ and __onEvery__
ReservedNet(init) ==
    pflowModel("a",
        <<CellCall("p1", init, 0), CellCall("p2", 0, 0),
          FnCall("t", "default"),
          FnCall("__onFail__", "default"), FnCall("__onEvery__", "default"),
          TxCall("p1", 1, "t"), TxCall("t", 1, "p2"),
          TxCall("p1", 1, "__onFail__"), TxCall("__onFail__", 1, "p2"),
          TxCall("p1", 1, "__onEvery__"), TxCall("__onEvery__", 1, "p2")>>,
        petriNet).def

InitReserved ==
    /\ LET S == PFlowStream(<<ReservedNet(MaxTok)>>)
       IN /\ models = S.models
          /\ state = S.state
          /\ heap = S.heap
          /\ seq = S.seq
          /\ history = S.history
          /\ eventHandlers = S.eventHandlers
          /\ trace = S.trace
    /\ model = NewDef("", petriNet)
    /\ vec = <<>>
    /\ call = NoCall

NextReserved ==
    \/ \E action \in {"t"} \cup ReservedLabels, multiple \in 1..MaxMult :
          Dispatch([schema |-> "a", action |-> action, multiple |-> multiple])
    \/ Restart
    \/ \E handler \in Handlers : On("__onReload__", handler)
    \/ \E handler \in Handlers : OnFail(handler)
    \/ \E handler \in Handlers : OnEvery(handler)

SpecReserved == InitReserved /\ [][NextReserved]_vars

(***************************************************************************)
(* A stream over a net without places                                      *)
(***************************************************************************)
InitEmpty ==
    /\ \E net \in {EmptyNet(type) : type \in PFlowModel} \cup {ChainNet(1, petriNet)} :
          LET S == PFlowStream(<<net>>)
          IN /\ models = S.models
             /\ state = S.state
             /\ heap = S.heap
             /\ seq = S.seq
             /\ history = S.history
             /\ eventHandlers = S.eventHandlers
             /\ trace = S.trace
    /\ model = NewDef("", petriNet)
    /\ vec = <<>>
    /\ call = NoCall

NextEmpty ==
    \/ \E schema \in Schemas, action \in Actions, multiple \in 1..MaxMult :
          Dispatch([schema |-> schema, action |-> action, multiple |-> multiple])
    \/ Restart
    \/ \E handler \in Handlers : On("__onReload__", handler)

SpecEmpty == InitEmpty /\ [][NextEmpty]_vars

(***************************************************************************)
(* A caller that holds the handle of a net and goes on declaring through   *)
(* handle.dsl, re-runs handle.index() and fires from the initial vector    *)
(***************************************************************************)
MaxArcs == 2     \* arcs declared through the handle

Weights == {1, 2}
PlaceLabels == <<"p1", "p2", "p3">>
InitialMarkings == {<<0, 0>>, <<0, 2>>, <<2, 0>>}

\* pflowModel({schema, declaration, type}) for a declaration object: places
\* and transitions are taken as they are, the arcs are not, index does not run
pflowModelObject(schema, declaration, type) ==
    [NewDef(schema, type) EXCEPT !.places = declaration.places,
                                 !.transitions = declaration.transitions]

NoArgs == [op |-> "", a |-> "", b |-> "", n |-> 0, m |-> 0]

\* the last call on the handle; indexed says whether index() has returned
\* success since the definition was last changed
DslCall(op, indexed) ==
    [op |-> op, action |-> "", multiple |-> 0, pre |-> <<>>, guard |-> FALSE,
     res |-> NoRes, threw |-> FALSE, ok |-> FALSE, indexed |-> indexed,
     args |-> NoArgs]

\* p1 and p2 with a transition t, declared by a function
InitDsl ==
    /\ StreamIdle
    /\ vec = <<>>
    /\ \E init \in InitialMarkings :
          LET m == pflowModel("caller",
                      <<CellCall("p1", init[1], 0), CellCall("p2", init[2], 0),
                        FnCall("t", "default")>>, petriNet)
          IN ~m.threw /\ model = m.def /\ call = DslCall("new", TRUE)

\* the same net, or a net loaded from the def of the net p1(2) -> t -> p2 as
\* pflow2png loads the def the editor's source evaluates to
InitHandle ==
    /\ StreamIdle
    /\ vec = <<>>
    /\ LET m == pflowModel("caller",
                      <<CellCall("p1", 2, 0), CellCall("p2", 0, 0),
                        FnCall("t", "default")>>, petriNet)
           o == pflowModel("caller",
                      CallerDeclaration(<<2, 0>>, <<0, 0>>, <<"in", "out">>,
                                        <<FALSE, FALSE>>, 1), petriNet)
       IN \/ ~m.threw /\ model = m.def /\ call = DslCall("new", TRUE)
          \/ /\ ~o.threw
             /\ model = pflowModelObject("caller", o.def, petriNet)
             /\ call = DslCall("new", FALSE)

\* handle.dsl.cell(label, initial): one more place
DslCell ==
    /\ Len(model.places) < Len(PlaceLabels)
    /\ model' = cell(model, PlaceLabels[Len(model.places) + 1], 1, 0)
    /\ call' = DslCall("cell", FALSE)
    /\ UNCHANGED vec
    /\ UNCHANGED streamVars

\* handle.dsl.fn("u", role): one more transition
DslFn ==
    /\ ~HasKey(model.transitions, "u")
    /\ model' = fn(model, "u", "default")
    /\ call' = DslCall("fn", FALSE)
    /\ UNCHANGED vec
    /\ UNCHANGED streamVars

\* the arcs the caller declares: any arc between p1, p2 and t
DslArcs ==
    {TxCall(p, w, "t") : p \in {"p1", "p2"}, w \in Weights}
    \cup {TxCall("t", w, p) : p \in {"p1", "p2"}, w \in Weights}
    \cup {GuardCall(p, w, "t") : p \in {"p1", "p2"}, w \in Weights}

\* place.tx(weight, transition), transition.tx(weight, place) or
\* place.guard(weight, transition) on the handles of declared nodes
DslArc(c) ==
    /\ Len(model.arcs) < MaxArcs
    /\ LET r == declareCall(model, c)
       IN ~r.threw /\ model' = r.def
    /\ call' = DslCall("arc", FALSE)
    /\ UNCHANGED vec
    /\ UNCHANGED streamVars

\* handle.index()
DslIndex ==
    /\ LET r == index(model)
       IN /\ model' = r.def
          /\ call' = [DslCall("index", r.ok /\ ~r.threw) EXCEPT
                        !.ok = r.ok /\ ~r.threw, !.threw = r.threw]
    /\ UNCHANGED vec
    /\ UNCHANGED streamVars

\* handle.fire({state: handle.initialVector(), action, multiple: 1})
DslFire(action) ==
    /\ HasKey(model.transitions, action)
    /\ LET s == initialVector(model)
           r == fire(model, s, action, 1, TRUE, TRUE)
       IN /\ vec' = r.state
          /\ call' = [DslCall("fire", call.indexed) EXCEPT
                        !.action = action, !.multiple = 1, !.pre = s,
                        !.guard = guardFails(model, s, action, 1).ok,
                        !.res = r.res, !.threw = r.threw, !.ok = r.res.ok]
    /\ UNCHANGED model
    /\ UNCHANGED streamVars

NextDsl ==
    \/ \E c \in DslArcs : DslArc(c)
    \/ DslIndex
    \/ DslFire("t")

SpecDsl == InitDsl /\ [][NextDsl]_vars

\* the caller also declares a place p3 and a transition u through the handle
NextHandle ==
    \/ DslCell
    \/ DslFn
    \/ \E c \in DslArcs : DslArc(c)
    \/ DslIndex
    \/ \E action \in {"t", "u"} : DslFire(action)

SpecHandle == InitHandle /\ [][NextHandle]_vars

(***************************************************************************)
(* A caller that connects the nodes of a net through their handles, with   *)
(* targets of either kind, catches what a call throws and runs index()     *)
(***************************************************************************)
ConnectCalls ==
    {TxCall(p, w, x) : p \in {"p1", "p2"}, w \in Weights, x \in {"t", "p2"}}
    \cup {GuardCall(p, w, x) : p \in {"p1", "p2"}, w \in Weights, x \in {"t", "p1"}}
    \cup {TxCall("t", w, x) : w \in Weights, x \in {"p1", "p2", "t"}}

InitConnect ==
    /\ StreamIdle
    /\ vec = <<>>
    /\ LET m == pflowModel("caller",
                      <<CellCall("p1", 1, 0), CellCall("p2", 0, 0),
                        FnCall("t", "default")>>, petriNet)
       IN ~m.threw /\ model = m.def /\ call = DslCall("new", TRUE)

\* try { source.tx(weight, target) } catch (e) {}, and the same for guard
Connect(c) ==
    /\ Len(model.arcs) < MaxArcs
    /\ LET r == declareCall(model, c)
       IN /\ model' = r.def
          /\ call' = [DslCall("connect", FALSE) EXCEPT !.args = c, !.threw = r.threw]
    /\ UNCHANGED vec
    /\ UNCHANGED streamVars

NextConnect ==
    \/ \E c \in ConnectCalls : Connect(c)
    \/ DslIndex

SpecConnect == InitConnect /\ [][NextConnect]_vars

(***************************************************************************)
(* A caller that declares places through handle.dsl, any label at any      *)
(* time, and reads the vectors of the net                                  *)
(***************************************************************************)
Initials == {NaN, 1}     \* NaN: the argument is left out

InitPlace ==
    /\ StreamIdle
    /\ vec = <<>>
    /\ LET m == pflowModel("caller", <<>>, petriNet)
       IN ~m.threw /\ model = m.def /\ call = DslCall("new", TRUE)

\* handle.dsl.cell(label, initial)
DefinePlace(label, initial) ==
    /\ model' = cell(model, label, initial, NaN)
    /\ call' = [DslCall("cell", FALSE) EXCEPT
                  !.args = CellCall(label, initial, NaN)]
    /\ UNCHANGED vec
    /\ UNCHANGED streamVars

\* handle.initialVector() and handle.emptyVector(), kept in vec and call.pre
ReadVectors ==
    /\ vec' = initialVector(model)
    /\ call' = [DslCall("vectors", call.indexed) EXCEPT !.pre = emptyVector(model)]
    /\ UNCHANGED model
    /\ UNCHANGED streamVars

NextPlace ==
    \/ \E i \in DOMAIN PlaceLabels, initial \in Initials :
          DefinePlace(PlaceLabels[i], initial)
    \/ ReadVectors

SpecPlace == InitPlace /\ [][NextPlace]_vars

(***************************************************************************)
(* Properties of fire, stated on the caller's last call                    *)
(***************************************************************************)
Fired == call.op = "fire"

\* the transition the last call named
FiredT == Get(model.transitions, call.action)

\* marking + delta * multiplier, as plain arithmetic
Raw == [i \in DOMAIN call.pre |-> call.pre[i] + FiredT.delta[i] * call.multiple]

\* every entry is >= 0 and within the capacity of a bounded place
WithinBounds(v) ==
    \A i \in DOMAIN v :
        /\ v[i] >= 0
        /\ model.places[i].capacity > 0 => v[i] <= model.places[i].capacity

\* some guard of the transition is active on the marking of the last call
SomeGuardActive ==
    \E j \in DOMAIN FiredT.guards :
        WithinBounds([i \in DOMAIN call.pre |->
                        call.pre[i] + FiredT.guards[j].delta[i] * call.multiple])

Positive(v) == {i \in DOMAIN v : v[i] > 0}

\* at most one positive entry and no entry greater than 1
Elementary(v) == Cardinality(Positive(v)) <= 1 /\ \A i \in DOMAIN v : v[i] <= 1

\* C1: in petriNet mode fire accepts exactly when no guard is active and
\* marking + delta * k is within bounds; on acceptance the marking becomes
\* marking + delta * k at every index and resolve is invoked
C1_PetriNetFire ==
    (Fired /\ model.type = petriNet) =>
        /\ call.res.ok <=> (~SomeGuardActive /\ WithinBounds(Raw))
        /\ call.res.ok => (vec = Raw /\ call.calls = <<"resolve">>)

\* C1 witness: p1(1) -> t -> p2(0), firing t once gives [0, 1]
C1_Witness ==
    /\ Fired /\ model.type = petriNet /\ call.res.ok
    /\ call.multiple = 1 /\ FiredT.delta = <<-1, 1>> /\ FiredT.guards = <<>>
    /\ call.pre = <<1, 0>> /\ vec = <<0, 1>>

\* C2: a rejected fire leaves the caller's marking unchanged at every index,
\* in every mode and for every rejection reason
C2_RejectKeepsMarking ==
    (Fired /\ ~call.res.ok) =>
        /\ Len(vec) = Len(call.pre)
        /\ \A i \in DOMAIN vec : vec[i] = call.pre[i]

\* C2 witness: a stateMachine firing rejected for its cardinality alone
C2_Witness ==
    /\ Fired /\ ~call.res.ok /\ model.type = stateMachine
    /\ call.test.ok /\ ~Elementary(call.test.out)

\* C2 witnesses of the other rejection reasons
C2_WitnessGuard == Fired /\ ~call.res.ok /\ call.guard
C2_WitnessUnderflow ==
    Fired /\ ~call.res.ok /\ ~call.guard /\ \E i \in DOMAIN Raw : Raw[i] < 0
C2_WitnessOverflow ==
    /\ Fired /\ ~call.res.ok /\ ~call.guard
    /\ \A i \in DOMAIN Raw : Raw[i] >= 0
    /\ ~WithinBounds(Raw)
C2_WitnessWorkflow == Fired /\ ~call.res.ok /\ model.type = workflow

\* C3: in every mode a fire on a transition whose guard check reports an
\* active guard is rejected: ok is false, reject is invoked and not resolve,
\* and the marking is unchanged
C3_GuardedFireRejected ==
    (Fired /\ call.guard) =>
        /\ ~call.res.ok
        /\ call.calls = <<"reject">>
        /\ vec = call.pre

\* C4: in stateMachine and workflow modes an accepted fire leaves at most one
\* positive entry and no entry above 1, and a stateMachine firing whose raw
\* result has two positive places is rejected though the arithmetic succeeds
C4_ElementaryModes ==
    /\ (Fired /\ model.type \in {stateMachine, workflow} /\ call.res.ok)
          => Elementary(vec)
    /\ (Fired /\ model.type = stateMachine /\ ~SomeGuardActive
              /\ WithinBounds(Raw) /\ Cardinality(Positive(Raw)) >= 2)
          => (~call.res.ok /\ vec = call.pre)

\* C4 witness: stateMachine, the arithmetic succeeds with two positive places
C4_Witness ==
    /\ Fired /\ model.type = stateMachine /\ ~SomeGuardActive
    /\ WithinBounds(Raw) /\ Cardinality(Positive(Raw)) >= 2
    /\ ~call.res.ok

\* C4 witness of an accepted firing in each mode
C4_WitnessAccepted ==
    /\ Fired /\ model.type \in {stateMachine, workflow} /\ call.res.ok
    /\ Cardinality(Positive(vec)) = 1
    /\ vec # call.pre

\* C5: in workflow mode with no active guard, a raw result with negative
\* entries is accepted when it has at most one positive entry and none above
\* 1, and the committed marking is the raw result with negatives set to 0
C5_WorkflowDropsNegatives ==
    (Fired /\ model.type = workflow /\ ~SomeGuardActive
           /\ (\E i \in DOMAIN Raw : Raw[i] < 0) /\ Elementary(Raw))
        => /\ call.res.ok
           /\ vec = [i \in DOMAIN Raw |-> IF Raw[i] < 0 THEN 0 ELSE Raw[i]]
           /\ call.res.out = vec

\* C5 witness: raw result [-1, 1] committed as [0, 1]
C5_Witness ==
    /\ Fired /\ model.type = workflow /\ ~SomeGuardActive
    /\ Raw = <<-1, 1>> /\ vec = <<0, 1>> /\ call.res.ok

\* the inhibitor arcs into the fired transition
InhibitorArcs ==
    {j \in DOMAIN model.arcs :
        model.arcs[j].inhibit /\ model.arcs[j].target.label = call.action}

\* C6: for an in-bounds marking and any positive multiplier, a transition
\* with an inhibitor arc of weight w from place p is blocked (the guard check
\* reports active and fire is rejected) whenever marking[p] >= w
C6_InhibitorBlocks ==
    (Fired /\ WithinBounds(call.pre)) =>
        \A j \in InhibitorArcs :
            LET p == Get(model.places, model.arcs[j].source.label)
            IN call.pre[p.offset + 1] >= model.arcs[j].weight
                  => (call.guard /\ ~call.res.ok)

(***************************************************************************)
(* Properties of vectorAdd                                                 *)
(***************************************************************************)
Added == call.op = "vectorAdd"

\* C7: vectorAdd returns result[i] = state[i] + delta[i] * k at every index,
\* ok exactly when every result entry is >= 0 and within the capacity of its
\* place when that capacity is > 0; the result is returned also when ok is
\* false, and state and delta are not modified
C7_VectorAdd ==
    Added =>
        /\ call.res.out = [i \in DOMAIN call.pre |->
                              call.pre[i] + call.delta[i] * call.multiple]
        /\ call.res.ok <=> WithinBounds(call.res.out)
        /\ ~call.res.none
        /\ vec = call.pre

\* C7 witness: an overflow alone makes ok false and the result is returned
C7_Witness ==
    /\ Added /\ ~call.res.ok
    /\ \A i \in DOMAIN call.res.out : call.res.out[i] >= 0
    /\ \E i \in DOMAIN call.res.out : call.res.out[i] = MaxCap + 1
    /\ call.multiple > 1

\* C7 witness of an unbounded place above every capacity, and of ok
C7_WitnessUnbounded ==
    /\ Added /\ call.res.ok
    /\ \E i \in DOMAIN call.res.out :
          model.places[i].capacity = 0 /\ call.res.out[i] > MaxCap

(***************************************************************************)
(* Properties of dispatch, stated on the stream's last call                *)
(***************************************************************************)
Dispatched == trace.op = "dispatch"

\* the last call was a dispatch of a known action on a known schema
KnownDispatch ==
    /\ Dispatched
    /\ trace.evt.schema \in DOMAIN models
    /\ HasKey(models[trace.evt.schema].transitions, trace.evt.action)

\* fire accepted / rejected the last dispatch
Accepted == KnownDispatch /\ trace.res.ok
Rejected == KnownDispatch /\ ~trace.res.ok

\* what each step of the log is: the effect, or the slot of the observer invoked
StepNames == [i \in DOMAIN trace.log |->
                IF trace.log[i].step = "call" THEN trace.log[i].key
                ELSE trace.log[i].step]

Registered(key) == key \in DOMAIN trace.before.eventHandlers

\* C8: on a successful dispatch the stream persists the new marking, appends
\* one history entry with the current sequence number and increments the
\* counter, invokes the every-dispatch observer if registered, the observer
\* of the action name if any, and then emits the reload notification, each
\* exactly once and in this order
C8_SuccessSteps ==
    Accepted =>
        /\ StepNames =
              <<"persist", "history">>
              \o (IF Registered("__onEvery__") THEN <<"__onEvery__">> ELSE <<>>)
              \o (IF Registered(trace.evt.action) THEN <<trace.evt.action>> ELSE <<>>)
              \o <<"__onReload__">>
        /\ Markings(Stream)[trace.evt.schema] = trace.res.out
        /\ Len(history) = Len(trace.before.history) + 1
        /\ history[Len(history)].seq = trace.before.seq
        /\ history[Len(history)].event = trace.evt
        /\ seq = trace.before.seq + 1

\* C8 with the reload step read as "when a reload observer is registered"
C8_StepsWhenReloadRegistered ==
    (Accepted /\ Registered("__onReload__")) => C8_SuccessSteps

\* the steps before the reload are taken whether or not it is registered
C8_StepsBeforeReload ==
    Accepted =>
        /\ SubSeq(StepNames, 1, 2) = <<"persist", "history">>
        /\ Markings(Stream)[trace.evt.schema] = trace.res.out
        /\ seq = trace.before.seq + 1
        /\ ~Registered("__onReload__") => trace.threw = "TypeError"

\* the stream holds what it held before the last call
StreamUntouched ==
    /\ Markings(Stream) = trace.before.markings
    /\ HistoryView(Stream) = trace.before.history
    /\ seq = trace.before.seq

\* C9: on a rejected dispatch the failure observer is invoked exactly once
\* with the attempted result, no every-dispatch, action or reload observer is
\* invoked, and the persisted markings, the history and the counter are
\* unchanged
C9_RejectedDispatch ==
    Rejected =>
        /\ Len(trace.log) = 1
        /\ trace.log[1].step = "call" /\ trace.log[1].key = "__onFail__"
        /\ trace.log[1].arg = [out |-> trace.res.out, none |-> trace.res.none]
        /\ StreamUntouched

\* C9 on a stream that has a failure observer
C9_WhenFailRegistered ==
    (Rejected /\ Registered("__onFail__")) => C9_RejectedDispatch

\* the frame of C9 holds also without a failure observer
C9_RejectedFrame ==
    Rejected =>
        /\ StreamUntouched
        /\ \A i \in DOMAIN trace.log : trace.log[i].key = "__onFail__"

\* scenario B: on p1(1) -> t -> p2(0) the second dispatch of t fails and the
\* marking stays [0, 1]
ScenarioB ==
    /\ Rejected /\ Registered("__onFail__")
    /\ models["a"].type = petriNet
    /\ Len(history) = 1
    /\ Markings(Stream) = [k \in {"a"} |-> <<0, 1>>]
    /\ trace.evt.multiple = 1

\* C10: a dispatch of a known action on a known schema whose firing is
\* rejected returns ok = false and does not throw, also on a stream without a
\* failure observer
C10_RejectionReturns ==
    Rejected => trace.threw = ""

\* C10 on a stream that has a failure observer
C10_WhenFailRegistered ==
    (Rejected /\ Registered("__onFail__")) => trace.threw = ""

\* a fatal error leaves the stream as it was
ErrorFrame ==
    (Dispatched /\ trace.threw = "Error") => (StreamUntouched /\ trace.log = <<>>)

(***************************************************************************)
(* The history, the counter and the persisted markings                     *)
(***************************************************************************)
\* C11: at every moment the counter equals the number of history entries and
\* the i-th entry, counted from 0, carries sequence number i; an accepted
\* dispatch appends exactly one entry and a rejected one none, and restart
\* leaves both empty, so N accepted dispatches after a restart give the
\* entries 0 .. N-1 whatever rejections lie between them
C11_SequenceMatchesHistory ==
    /\ seq = Len(history)
    /\ \A i \in DOMAIN history : history[i].seq = i - 1
    /\ Accepted => Len(history) = Len(trace.before.history) + 1
    /\ Rejected => Len(history) = Len(trace.before.history)
    /\ trace.op = "restart" => (seq = 0 /\ history = <<>>)

\* two accepted dispatches and then a rejected one
C11_Witness ==
    /\ Rejected
    /\ Len(history) = 2
    /\ history[2].seq = 1

\* a restart of a stream that had entries
C11_WitnessRestart ==
    /\ trace.op = "restart"
    /\ Len(trace.before.history) >= 2

\* the last call was a dispatch of a known action on a schema that held no
\* marking
FirstDispatch == KnownDispatch /\ trace.evt.schema \notin DOMAIN trace.before.markings

\* initial vector + delta * multiplier of the last dispatch, as plain arithmetic
RawFromInitial ==
    LET def == models[trace.evt.schema]
        t == Get(def.transitions, trace.evt.action)
    IN [i \in DOMAIN def.places |->
          def.places[i].initial + t.delta[i] * trace.evt.multiple]

\* C12: restart sets the counter to 0, empties the history and discards every
\* persisted marking; a new stream holds none, a rejected dispatch creates
\* none, and the first accepted dispatch on a schema persists the result of
\* firing against the net's initial vector
C12_RestartAndLazyMarking ==
    /\ trace.op = "restart" =>
          (seq = 0 /\ history = <<>> /\ DOMAIN state = {})
    /\ trace.op = "new" => DOMAIN state = {}
    /\ (Dispatched /\ trace.evt.schema \notin DOMAIN state) =>
          trace.evt.schema \notin DOMAIN trace.before.markings
    /\ (FirstDispatch /\ Rejected) => DOMAIN state = DOMAIN trace.before.markings
    /\ (FirstDispatch /\ Accepted) =>
          LET def == models[trace.evt.schema]
              t == Get(def.transitions, trace.evt.action)
          IN (def.type # workflow \/ t.guards = <<>>) =>
                Markings(Stream)[trace.evt.schema] =
                   [i \in DOMAIN RawFromInitial |->
                      IF def.type = workflow /\ RawFromInitial[i] < 0 THEN 0
                      ELSE RawFromInitial[i]]

\* restart of a stream whose marking had moved away from the initial vector
C12_Witness ==
    /\ trace.op = "restart"
    /\ "a" \in DOMAIN trace.before.markings
    /\ trace.before.markings["a"] # initialVector(models["a"])
    /\ Len(trace.before.history) >= 2

\* a rejected first dispatch
C12_WitnessRejectedFirst == FirstDispatch /\ Rejected

\* an accepted first dispatch on a stream whose counter is 0
C12_WitnessAcceptedFirst ==
    FirstDispatch /\ Accepted /\ trace.before.seq = 0 /\ models["a"].type = petriNet

\* C13: every marking the stream holds, in any net mode and after any
\* dispatches with multipliers >= 1, has every entry >= 0 and, at a place
\* with capacity > 0, at most that capacity
C13_PersistedWithinBounds ==
    \A k \in DOMAIN state :
        LET v == Markings(Stream)[k]
            places == models[k].places
        IN \A i \in DOMAIN v :
              /\ v[i] >= 0
              /\ (i \in DOMAIN places /\ places[i].capacity > 0) =>
                    v[i] <= places[i].capacity

\* a bounded place is full and the dispatch that would overfill it was rejected
C13_Witness ==
    /\ Rejected
    /\ "a" \in DOMAIN state
    /\ \E i \in DOMAIN models["a"].places :
          /\ models["a"].places[i].capacity > 0
          /\ Markings(Stream)["a"][i] = models["a"].places[i].capacity
          /\ Get(models["a"].transitions, trace.evt.action).delta[i] > 0

\* on a net whose initial marking exceeds a capacity nothing is ever persisted
C13_WitnessOverfull ==
    /\ Rejected
    /\ \E i \in DOMAIN models["a"].places :
          /\ models["a"].places[i].capacity > 0
          /\ models["a"].places[i].initial > models["a"].places[i].capacity

\* C14: after any dispatches, updates and restarts the marking the stream
\* holds for a schema is as long as the net registered under that schema has
\* places
C14_MarkingLengthMatchesNet ==
    \A k \in DOMAIN state : Len(Markings(Stream)[k]) = Len(models[k].places)

\* a marking is held when the net is replaced by one of another place count
C14_UpdateKeepsMarking ==
    /\ trace.op = "update"
    /\ "a" \in DOMAIN state
    /\ Markings(Stream) = trace.before.markings
    /\ Len(Markings(Stream)["a"]) # Len(models["a"].places)

(***************************************************************************)
(* Fatal errors of dispatch                                                *)
(***************************************************************************)
\* C15: a dispatch with an unknown schema, or with an action that names no
\* transition of the net, raises an error and changes nothing: no marking is
\* persisted or modified, no history entry is appended, the counter is
\* unchanged and no observer is invoked
C15_UnknownDispatchChangesNothing ==
    (Dispatched /\ ~KnownDispatch) =>
        /\ trace.threw \in {"Error", "TypeError"}
        /\ StreamUntouched
        /\ trace.log = <<>>

\* C15 for an unknown schema, for a name that is no property of
\* def.transitions at all, and for any unknown name on a net that has places
C15_OwnNamesOrPlaces ==
    (/\ Dispatched /\ ~KnownDispatch
     /\ \/ trace.evt.schema \notin DOMAIN models
        \/ trace.evt.action \notin ObjectPrototypeKeys
        \/ models[trace.evt.schema].places # <<>>)
    => C15_UnknownDispatchChangesNothing

\* an unknown schema, and an unknown action after a marking was persisted
C15_WitnessSchema ==
    Dispatched /\ trace.evt.schema \notin DOMAIN models /\ Len(history) >= 1

C15_WitnessAction ==
    /\ Dispatched /\ trace.evt.schema \in DOMAIN models /\ ~KnownDispatch
    /\ trace.threw = "Error" /\ Len(history) >= 1

\* the inherited name is accepted on the net without places
C15_InheritedNameAccepted ==
    /\ Dispatched /\ ~KnownDispatch
    /\ trace.evt.action \in ObjectPrototypeKeys
    /\ trace.res.ok
    /\ Len(history) = Len(trace.before.history) + 1

(***************************************************************************)
(* Firing and indexing through the handle                                  *)
(***************************************************************************)
HandleFired == call.op = "fire"

\* C16: a firing call against a net that has not been indexed (a net loaded
\* from an object, or a net that got places, transitions or arcs through
\* the handle after the last index run) is rejected
C16_UnindexedFireRejected ==
    (HandleFired /\ ~call.indexed) => (call.threw \/ ~call.ok)

\* the net loaded from an object is fired with the deltas the object carried
C16_ObjectLoadedAccepted ==
    /\ HandleFired /\ ~call.indexed /\ call.ok
    /\ model.arcs = <<>>
    /\ Len(model.places) = 2
    /\ vec = <<1, 1>>

\* a place added after the index run: the delta has no entry for it and the
\* accepted marking holds NaN there
C16_PlaceAddedAccepted ==
    /\ HandleFired /\ ~call.indexed /\ call.ok
    /\ Len(model.places) = 3
    /\ vec[3] = NaN

\* a transition added after the index run has the delta {}: the accepted
\* marking is NaN at every place
C16_TransitionAddedAccepted ==
    /\ HandleFired /\ ~call.indexed /\ call.ok
    /\ call.action = "u"
    /\ \A i \in DOMAIN vec : vec[i] = NaN

\* after a successful index run and no change since, fire decides by the
\* deltas of the arcs
C16_IndexedFire ==
    (HandleFired /\ call.indexed) =>
        /\ ~call.threw
        /\ \A i \in DOMAIN vec : vec[i] # NaN

\* the non-inhibitor arcs declared between transition t and place p
ArcsBetween(t, p) ==
    {j \in DOMAIN model.arcs :
        /\ ~model.arcs[j].inhibit
        /\ \/ model.arcs[j].source = TransitionNode(t) /\ model.arcs[j].target = PlaceNode(p)
           \/ model.arcs[j].source = PlaceNode(p) /\ model.arcs[j].target = TransitionNode(t)}

\* +w or -w of the last-declared of them, 0 when there is none
LastArcDelta(t, p) ==
    IF ArcsBetween(t, p) = {} THEN 0
    ELSE LET j == CHOOSE j \in ArcsBetween(t, p) : \A k \in ArcsBetween(t, p) : k <= j
             a == model.arcs[j]
         IN IF a.source.kind = "transition" THEN a.weight ELSE 0 - a.weight

Indexed == call.op = "index" /\ call.ok

C17_WitnessInhibitor ==
    /\ Indexed
    /\ Len(model.arcs) = 2
    /\ ~model.arcs[1].inhibit /\ model.arcs[2].inhibit
    /\ model.arcs[1].source = PlaceNode("p1")
    /\ model.arcs[2].source = PlaceNode("p1")
    /\ Get(model.transitions, "t").delta[1] = 0 - model.arcs[1].weight

\* the arcs p -> t and the arcs t -> p among the non-inhibitor arcs
InputArcs(t, p) == {j \in ArcsBetween(t, p) : model.arcs[j].source.kind = "place"}
OutputArcs(t, p) == {j \in ArcsBetween(t, p) : model.arcs[j].source.kind = "transition"}

\* C18: for a place that is an input (p -> t, weight a) and an output
\* (t -> p, weight b) of the same transition, an accepted petriNet firing
\* with multiplier 1 changes the place's count by b - a
C18_NetTokenChange ==
    (HandleFired /\ call.indexed /\ call.ok /\ call.multiple = 1
       /\ model.type = petriNet) =>
        \A pi \in DOMAIN model.places :
            LET p == model.places[pi]
                ins == InputArcs(call.action, p.label)
                outs == OutputArcs(call.action, p.label)
            IN (Cardinality(ins) = 1 /\ Cardinality(outs) = 1) =>
                  LET a == model.arcs[CHOOSE j \in ins : TRUE].weight
                      b == model.arcs[CHOOSE j \in outs : TRUE].weight
                  IN vec[p.offset + 1] - call.pre[p.offset + 1] = b - a

\* p1 is input and output of t and the accepted firing changes it by the
\* weight of the arc declared last
C18_LastArcDecides ==
    /\ HandleFired /\ call.indexed /\ call.ok
    /\ Cardinality(InputArcs("t", "p1")) = 1
    /\ Cardinality(OutputArcs("t", "p1")) = 1
    /\ vec[1] - call.pre[1] = LastArcDelta("t", "p1")
    /\ vec[1] - call.pre[1] #
          model.arcs[CHOOSE j \in OutputArcs("t", "p1") : TRUE].weight
          - model.arcs[CHOOSE j \in InputArcs("t", "p1") : TRUE].weight

\* C19: index() is idempotent: run again on the unchanged definition it
\* returns the same ok and leaves every delta and every guard set (labels
\* and guard deltas) as the first run left them
C19_IndexIdempotent ==
    call.op = "index" =>
        LET again == index(model)
        IN /\ again.ok = call.ok
           /\ again.def = model

\* an index run over arcs and inhibitor arcs
C19_Witness ==
    /\ Indexed
    /\ Len(model.arcs) = MaxArcs
    /\ \E j \in DOMAIN model.arcs : model.arcs[j].inhibit
    /\ \E j \in DOMAIN model.arcs : ~model.arcs[j].inhibit
    /\ Get(model.transitions, "t").guards # <<>>

\* the inhibitor arcs declared from place p to transition t
InhibitorArcsFrom(t, p) ==
    {j \in DOMAIN model.arcs :
        /\ model.arcs[j].inhibit
        /\ model.arcs[j].source = PlaceNode(p)
        /\ model.arcs[j].target = TransitionNode(t)}

\* a guard is active on a marking when the marking plus the guard's delta is
\* within bounds
GuardActive(g, s) == WithinBounds([i \in DOMAIN s |-> s[i] + g.delta[i]])

\* C20: indexing inhibitor arcs from different places into one transition
\* gives one guard per place, keyed by the place's label, whose delta is
\* -weight at that place's offset and 0 elsewhere; a firing is blocked by
\* guards exactly when at least one of the transition's guards is active
C20_GuardPerPlace ==
    /\ Indexed =>
          \A ti \in DOMAIN model.transitions :
              LET t == model.transitions[ti]
              IN /\ {t.guards[i].label : i \in DOMAIN t.guards} =
                       {model.places[pi].label : pi \in
                           {pi \in DOMAIN model.places :
                              InhibitorArcsFrom(t.label, model.places[pi].label) # {}}}
                 /\ \A i, j \in DOMAIN t.guards :
                       t.guards[i].label = t.guards[j].label => i = j
                 /\ \A i \in DOMAIN t.guards :
                       LET p == Get(model.places, t.guards[i].label)
                           arcs == InhibitorArcsFrom(t.label, p.label)
                           last == CHOOSE j \in arcs : \A k \in arcs : k <= j
                       IN t.guards[i].delta =
                             [n \in DOMAIN model.places |->
                                IF n = p.offset + 1 THEN 0 - model.arcs[last].weight
                                ELSE 0]
    /\ (HandleFired /\ call.indexed /\ call.multiple = 1) =>
          LET t == Get(model.transitions, call.action)
          IN /\ call.guard = (\E i \in DOMAIN t.guards : GuardActive(t.guards[i], call.pre))
             /\ call.guard => ~call.ok

\* guards from p1 and p2: the first is not active, the second is, and the
\* firing is blocked
C20_Witness ==
    /\ HandleFired /\ call.indexed
    /\ Len(Get(model.transitions, "t").guards) = 2
    /\ ~GuardActive(Get(model.transitions, "t").guards[1], call.pre)
    /\ GuardActive(Get(model.transitions, "t").guards[2], call.pre)
    /\ call.guard /\ ~call.ok

\* two guards, none active, and the firing is accepted
C20_WitnessNoneActive ==
    /\ HandleFired /\ call.indexed
    /\ Len(Get(model.transitions, "t").guards) = 2
    /\ ~call.guard /\ call.ok

(***************************************************************************)
(* The history entries                                                     *)
(***************************************************************************)
\* C30: a history entry is an immutable record: the marking stored in the
\* k-th entry is the marking the k-th accepted dispatch resulted in, and a
\* later accepted dispatch leaves the entries made before it as they were
C30_HistoryImmutable ==
    /\ Accepted =>
          HistoryView(Stream)[Len(history)].state = trace.res.out
    /\ Dispatched =>
          \A i \in DOMAIN trace.before.history :
              /\ i \in DOMAIN history
              /\ HistoryView(Stream)[i] = trace.before.history[i]

\* the entry of the first dispatch holds the marking of the second
C30_EntryOverwritten ==
    /\ Accepted
    /\ Len(history) = 2
    /\ models["a"].type = petriNet
    /\ trace.before.history[1].state = <<1, 1>>
    /\ HistoryView(Stream)[1].state = <<0, 2>>
    /\ HistoryView(Stream)[2].state = <<0, 2>>

\* the entry made by an accepted dispatch holds its result, and a rejected
\* dispatch changes no entry
C30_EntryWhenMade ==
    /\ Accepted => HistoryView(Stream)[Len(history)].state = trace.res.out
    /\ Rejected => HistoryView(Stream) = trace.before.history

(***************************************************************************)
(* The outcomes of a fire call                                             *)
(***************************************************************************)
\* C26: every fire call on a known transition ends committed or rejected:
\* exactly one of the callbacks resolve and reject is invoked, exactly
\* once, resolve with ok = true and reject with ok = false
C26_CommittedOrRejected ==
    Fired =>
        \/ call.res.ok /\ call.calls = <<"resolve">>
        \/ ~call.res.ok /\ call.calls = <<"reject">> /\ vec = call.pre

\* a committed call that changed the marking
C26_Witness ==
    /\ Fired
    /\ call.calls = <<"resolve">>
    /\ vec # call.pre

\* a rejected call
C26_WitnessRejected == Fired /\ call.calls = <<"reject">>

(***************************************************************************)
(* Adding a delta and its inverse                                          *)
(***************************************************************************)
RoundTrip == call.op = "roundTrip"

\* C25: for an in-bounds marking s, a delta d and a multiplier k >= 1 with
\* add(s, d, k) ok, add(add(s, d, k).result, -d, k) is ok and returns s
C25_InverseRestores ==
    (RoundTrip /\ WithinBounds(call.pre)) =>
        /\ call.res.ok
        /\ call.res.out = call.pre

\* a round trip with a multiplier above 1 through an emptied place
C25_Witness ==
    /\ RoundTrip /\ WithinBounds(call.pre)
    /\ call.multiple > 1
    /\ \E i \in DOMAIN call.pre : call.test.out[i] = 0 /\ call.pre[i] > 0

\* a round trip through a bounded place filled to its capacity
C25_WitnessFull ==
    /\ RoundTrip /\ WithinBounds(call.pre)
    /\ \E i \in DOMAIN call.pre :
          /\ model.places[i].capacity > 0
          /\ call.test.out[i] = model.places[i].capacity
          /\ call.pre[i] = 0

\* from a marking that is out of bounds the inverse is not ok
C25_WitnessOutOfBounds ==
    RoundTrip /\ ~WithinBounds(call.pre) /\ ~call.res.ok /\ call.res.out = call.pre

(***************************************************************************)
(* The test phase                                                          *)
(***************************************************************************)
Tested == call.op = "testFire"
GuardChecked == call.op = "guardFails"

C27_WitnessGuard == GuardChecked /\ call.guard /\ call.pre = vec

(***************************************************************************)
(* Observers                                                               *)
(***************************************************************************)
SlotSet == trace.op = "on"
SlotDeleted == trace.op = "off"

\* the handlers of every slot but key are as they were before the call
OtherSlotsKept(key) ==
    /\ (DOMAIN eventHandlers) \ {key} = (DOMAIN trace.before.eventHandlers) \ {key}
    /\ \A k \in (DOMAIN eventHandlers) \ {key} :
          eventHandlers[k] = trace.before.eventHandlers[k]

\* the handler calls of the last dispatch, in order
HandlerCalls == SelectSeq(trace.log, LAMBDA st : st.step = "call")

\* C28: a registration leaves its handler alone in the slot, off empties the
\* slot, and a dispatch invokes for each slot at most one handler, the one
\* the slot holds
C28_SingleSlot ==
    /\ SlotSet =>
          /\ trace.log[1].key \in DOMAIN eventHandlers
          /\ eventHandlers[trace.log[1].key] = trace.log[1].handler
          /\ OtherSlotsKept(trace.log[1].key)
    /\ SlotDeleted =>
          /\ trace.log[1].key \notin DOMAIN eventHandlers
          /\ OtherSlotsKept(trace.log[1].key)
    /\ Dispatched =>
          /\ eventHandlers = trace.before.eventHandlers
          /\ \A i \in DOMAIN HandlerCalls :
                /\ HandlerCalls[i].key \in
                      {"__onEvery__", "__onFail__", "__onReload__", trace.evt.action}
                /\ HandlerCalls[i].key \in DOMAIN eventHandlers
                /\ HandlerCalls[i].handler = eventHandlers[HandlerCalls[i].key]
                /\ \A j \in DOMAIN HandlerCalls :
                      HandlerCalls[j].key = HandlerCalls[i].key => j = i

\* a second registration for an action replaced the first
C28_Witness ==
    /\ SlotSet /\ trace.log[1].key = "t"
    /\ "t" \in DOMAIN trace.before.eventHandlers
    /\ trace.before.eventHandlers["t"] = "h1"
    /\ eventHandlers["t"] = "h2"

\* an accepted dispatch called the replaced slots' handlers
C28_WitnessDispatch ==
    /\ Accepted
    /\ \E i, j \in DOMAIN HandlerCalls :
          /\ HandlerCalls[i].key = "__onEvery__" /\ HandlerCalls[i].handler = "h2"
          /\ HandlerCalls[j].key = "t" /\ HandlerCalls[j].handler = "h1"

\* a rejected dispatch called the failure handler
C28_WitnessFail ==
    Rejected /\ Len(HandlerCalls) = 1 /\ HandlerCalls[1].key = "__onFail__"
    /\ HandlerCalls[1].handler = "h2"

\* an accepted dispatch of an action whose handler was removed
C28_WitnessOff ==
    /\ Accepted /\ "t" \notin DOMAIN eventHandlers
    /\ \A i \in DOMAIN HandlerCalls : HandlerCalls[i].key # "t"
    /\ HandlerCalls # <<>>

(***************************************************************************)
(* Roles                                                                   *)
(***************************************************************************)
RoleDefined == call.op = "role"

\* role(label) on a registry: a label it has changes nothing, another label
\* is added as one role, and the role of that label is what comes back
RoleStep(label) ==
    /\ IF HasKey(model.roles, label)
       THEN model' = model
       ELSE model' = [model EXCEPT !.roles = Append(@, [label |-> label])]
    /\ HasKey(model'.roles, label)
    /\ ~call'.res.none

\* C29: defineRole with a label the registry has returns that role and
\* leaves the registry unchanged; with a new label it adds exactly one role
C29_RoleIdempotent ==
    [][RoleDefined' => RoleStep(call'.action)]_vars

\* the same for the labels that are no property of a plain object
C29_OrdinaryLabels ==
    [][(RoleDefined' /\ call'.action \notin ObjectPrototypeKeys)
          => RoleStep(call'.action)]_vars

\* a second definition of a role
C29_WitnessSecond ==
    RoleDefined /\ Len(model.roles) = 2 /\ call.action = model.roles[1].label

\* role('constructor') registered nothing and returned no role
C29_InheritedReturned ==
    RoleDefined /\ call.action = "constructor" /\ call.res.none
    /\ ~HasKey(model.roles, "constructor")

(***************************************************************************)
(* Connect calls                                                           *)
(***************************************************************************)
Connected == call.op = "connect"

\* the kind of node the connect call c must be given as its target
ExpectedTarget(c) ==
    IF c.op = "tx" /\ HasKey(model.transitions, c.a) THEN "place" ELSE "transition"

\* the Arc record of the connect call c
ArcOf(c) ==
    [source |-> getNode(model, c.a), target |-> getNode(model, c.b),
     weight |-> c.n, inhibit |-> c.op = "guard"]

C23_WitnessFailed ==
    Connected /\ call.threw /\ call.args.a = "t" /\ call.args.b = "t"

\* a place.tx given a place failed
C23_WitnessPlaceFailed ==
    Connected /\ call.threw /\ call.args.op = "tx" /\ call.args.a = "p1"

(***************************************************************************)
(* Indexing a definition that holds an arc between two places              *)
(***************************************************************************)
Malformed(arc) == arc.source.kind = arc.target.kind

WellFormedArcs(def) == SelectSeq(def.arcs, LAMBDA arc : ~Malformed(arc))

IndexRun == call.op = "index"

\* C21: index on a definition with a malformed arc returns false, and has
\* processed every other arc
C21_MalformedArcRecorded ==
    (IndexRun /\ \E i \in DOMAIN model.arcs : Malformed(model.arcs[i])) =>
        /\ ~call.threw
        /\ ~call.ok
        /\ model.transitions =
              index([model EXCEPT !.arcs = WellFormedArcs(model)]).def.transitions

\* index on well-formed arcs returns true
C21_WellFormedIndexed ==
    (IndexRun /\ \A i \in DOMAIN model.arcs : ~Malformed(model.arcs[i])) =>
        ~call.threw /\ call.ok

\* index threw on the first arc and left the second, a well-formed one, out
C21_IndexThrew ==
    /\ IndexRun /\ call.threw
    /\ Len(model.arcs) = 2
    /\ Malformed(model.arcs[1]) /\ ~Malformed(model.arcs[2])
    /\ ~model.arcs[2].inhibit
    /\ Get(model.transitions, "t").delta = <<0, 0>>

(***************************************************************************)
(* Place offsets and the vectors built from them                           *)
(***************************************************************************)
PlaceDefined == call.op = "cell"
VectorsRead == call.op = "vectors"

\* the offset of every place is its position in declaration order
OffsetsDense == \A i \in DOMAIN model.places : model.places[i].offset = i - 1

\* C22: the offsets of the registered places are 0..n-1 in declaration
\* order, and the offset of a registered label never changes
C22_OffsetsDenseAndFixed ==
    /\ []OffsetsDense
    /\ [][\A i \in DOMAIN model.places :
             /\ HasKey(model'.places, model.places[i].label)
             /\ Get(model'.places, model.places[i].label).offset
                   = model.places[i].offset]_vars

\* the same while every definePlace call brings a new label
C22_NewLabels ==
    [][(PlaceDefined' /\ ~HasKey(model.places, call'.args.a) /\ OffsetsDense)
         => /\ OffsetsDense'
            /\ Len(model'.places) = Len(model.places) + 1
            /\ \A i \in DOMAIN model.places : model'.places[i] = model.places[i]]_vars

\* three places declared one after the other
C22_WitnessThree == PlaceDefined /\ Len(model.places) = 3 /\ OffsetsDense

\* p1 declared again after p2: its offset went from 0 to 2, and no place
\* has offset 0
C22_Redeclared ==
    /\ PlaceDefined /\ call.args.a = "p1"
    /\ Len(model.places) = 2
    /\ model.places[1].label = "p1" /\ model.places[1].offset = 2
    /\ model.places[2].offset = 1

\* C24: initialVector() has one entry per place, the entry at the offset of
\* a place is its initial value (0 when it was left out), and emptyVector()
\* is the zero vector of that length
C24_VectorsMatchPlaces ==
    VectorsRead =>
        /\ Len(vec) = Len(model.places)
        /\ \A i \in DOMAIN model.places :
              /\ model.places[i].offset + 1 \in DOMAIN vec
              /\ vec[model.places[i].offset + 1] = model.places[i].initial
              /\ model.places[i].initial \in {0, 1}
        /\ call.pre = [i \in 1..Len(model.places) |-> 0]

\* the same for nets whose place labels are all different
C24_DistinctLabels == OffsetsDense => C24_VectorsMatchPlaces

\* the vectors of three places, one of them declared without initial
C24_WitnessThree ==
    VectorsRead /\ OffsetsDense /\ vec = <<1, 0, 1>> /\ call.pre = <<0, 0, 0>>

\* two places and an initial vector of three entries
C24_TooLong ==
    VectorsRead /\ Len(model.places) = 2 /\ Len(vec) = 3 /\ Len(call.pre) = 2

(***************************************************************************)
(* Connect calls that fail                                                 *)
(***************************************************************************)
\* C36: a connect call that fails its target-kind assertion leaves the arc
\* list as it was
C36_FailedConnectAppendsNothing ==
    [][(Connected' /\ call'.threw) => model'.arcs = model.arcs]_vars

\* the same for transition.tx alone, which asserts before it pushes
C36_TransitionTxOnly ==
    [][(Connected' /\ call'.threw /\ HasKey(model.transitions, call'.args.a))
          => model'.arcs = model.arcs]_vars

\* a failed place.guard left its arc, from p1 to p1, in the list
C36_ArcLeft ==
    /\ Connected /\ call.threw /\ call.args.op = "guard"
    /\ Len(model.arcs) = 1
    /\ model.arcs[1].source = PlaceNode("p1")
    /\ model.arcs[1].target = PlaceNode("p1")
    /\ model.arcs[1].inhibit

\* a failed transition.tx left the list empty
C36_WitnessTransition ==
    Connected /\ call.threw /\ call.args.a = "t" /\ model.arcs = <<>>

(***************************************************************************)
(* The reload notification of an accepted dispatch                         *)
(***************************************************************************)
\* C33: an accepted dispatch on a stream with no reload observer raises
\* nothing and returns the accepted result
C33_AcceptedWithoutReloadReturns ==
    (Accepted /\ ~Registered("__onReload__")) => trace.threw = ""

\* with a reload observer the accepted dispatch returns
C33_WhenReloadRegistered ==
    (Accepted /\ Registered("__onReload__")) => trace.threw = ""

\* an accepted dispatch with no reload observer threw after it had persisted
\* the marking and called the every-dispatch observer
C33_ReloadThrew ==
    /\ Accepted /\ ~Registered("__onReload__")
    /\ trace.threw = "TypeError"
    /\ StepNames = <<"persist", "history", "__onEvery__">>
    /\ seq = trace.before.seq + 1

\* an accepted dispatch with a reload observer returned
C33_WitnessReturned ==
    Accepted /\ Registered("__onReload__") /\ trace.threw = ""

(***************************************************************************)
(* Replacing a net of a stream that holds several                          *)
(***************************************************************************)
Updated == trace.op = "update"

\* the marking held for the schema of the last dispatch when it was made
HeldBefore == trace.evt.schema \in DOMAIN trace.before.markings

\* C31: update(model) replaces the net under model's schema and nothing
\* else: the other nets, every persisted marking, the history and the counter
\* stay, and a dispatch on a schema that holds a marking fires the net now
\* registered against that marking
C31_UpdateReplacesNetOnly ==
    /\ [][Updated' =>
            /\ DOMAIN models' = (DOMAIN models) \cup {trace'.evt.schema}
            /\ models'[trace'.evt.schema] \in MultiUpdateNets
            /\ \A k \in (DOMAIN models) \ {trace'.evt.schema} : models'[k] = models[k]
            /\ state' = state /\ heap' = heap
            /\ history' = history /\ seq' = seq]_vars
    /\ []((KnownDispatch /\ HeldBefore) =>
            trace.res = fire(models[trace.evt.schema],
                             trace.before.markings[trace.evt.schema],
                             trace.evt.action, trace.evt.multiple, TRUE, TRUE).res)

\* a net replaced while its schema and the other one hold a marking
C31_Witness ==
    /\ Updated /\ trace.evt.schema = "a"
    /\ models["a"] = ThreePlaceNet(petriNet)
    /\ DOMAIN state = {"a", "b"}
    /\ Markings(Stream) = trace.before.markings
    /\ Len(history) > 0

\* the three-place net fired against the two-entry marking the stream held,
\* where its initial vector would have given another result
C31_WitnessOldMarking ==
    /\ Accepted /\ HeldBefore /\ trace.evt.schema = "a"
    /\ models["a"] = ThreePlaceNet(petriNet)
    /\ Len(trace.before.markings["a"]) = 2
    /\ Len(trace.res.out) = 2
    /\ trace.res # fire(models["a"], initialVector(models["a"]),
                        trace.evt.action, trace.evt.multiple, TRUE, TRUE).res

(***************************************************************************)
(* Dispatches on one of several nets                                       *)
(***************************************************************************)
\* C32: a dispatch on one schema, accepted or rejected, leaves the marking
\* held for every other schema as it was; the history and the counter
\* advance by one on acceptance and stay on rejection
C32_OtherSchemasKept ==
    Dispatched =>
        /\ (DOMAIN state) \ {trace.evt.schema}
              = (DOMAIN trace.before.markings) \ {trace.evt.schema}
        /\ \A k \in (DOMAIN state) \ {trace.evt.schema} :
              Markings(Stream)[k] = trace.before.markings[k]
        /\ \A i \in DOMAIN trace.before.history :
              trace.before.history[i].event.schema # trace.evt.schema =>
                  /\ i \in DOMAIN history
                  /\ HistoryView(Stream)[i] = trace.before.history[i]
        /\ Accepted => /\ seq = trace.before.seq + 1
                       /\ Len(history) = Len(trace.before.history) + 1
        /\ Rejected => /\ seq = trace.before.seq
                       /\ HistoryView(Stream) = trace.before.history
                       /\ Markings(Stream) = trace.before.markings

\* an accepted dispatch on "a" while "b" holds a marking and a history entry
C32_Witness ==
    /\ Accepted /\ trace.evt.schema = "a"
    /\ "b" \in DOMAIN trace.before.markings
    /\ "a" \in DOMAIN trace.before.markings
    /\ Markings(Stream)["b"] = <<0, 1>>
    /\ Markings(Stream)["a"] # trace.before.markings["a"]
    /\ \E i \in DOMAIN trace.before.history :
          trace.before.history[i].event.schema = "b"

\* a rejected dispatch on "b" while "a" holds a marking
C32_WitnessRejected ==
    /\ Rejected /\ trace.evt.schema = "b"
    /\ "a" \in DOMAIN state /\ "b" \in DOMAIN state

(***************************************************************************)
(* Observers that raise                                                    *)
(***************************************************************************)
\* the slot held an observer that raises when the dispatch was made
Raises(key) ==
    Registered(key) /\ trace.before.eventHandlers[key] \in ThrowingHandlers

\* the last dispatch persisted its result and appended its history entry
FiringKept ==
    /\ Markings(Stream)[trace.evt.schema] = trace.res.out
    /\ seq = trace.before.seq + 1
    /\ Len(history) = Len(trace.before.history) + 1
    /\ HistoryView(Stream)[Len(history)].state = trace.res.out
    /\ history[Len(history)].seq = trace.before.seq

\* C34: when the every-dispatch observer or the observer of the action
\* raises during an accepted dispatch, the dispatch raises with the marking
\* persisted and the history entry appended, and no observer after the one
\* that raised is invoked
C34_RaisingObserverAborts ==
    /\ (Accepted /\ Raises("__onEvery__")) =>
          /\ trace.threw = "ObserverError"
          /\ FiringKept
          /\ StepNames = <<"persist", "history", "__onEvery__">>
    /\ (Accepted /\ ~Raises("__onEvery__") /\ Raises(trace.evt.action)) =>
          /\ trace.threw = "ObserverError"
          /\ FiringKept
          /\ StepNames = <<"persist", "history">>
                \o (IF Registered("__onEvery__") THEN <<"__onEvery__">> ELSE <<>>)
                \o <<trace.evt.action>>

\* the every-dispatch observer raised with the other two slots taken
C34_Witness ==
    /\ Accepted /\ Raises("__onEvery__")
    /\ Registered("t") /\ Registered("__onReload__")
    /\ trace.threw = "ObserverError"
    /\ Markings(Stream)["a"] = <<0, 1>>

\* the observer of the action raised after the every-dispatch observer ran
C34_WitnessAction ==
    /\ Accepted /\ Raises("t")
    /\ Registered("__onEvery__") /\ ~Raises("__onEvery__")
    /\ Registered("__onReload__")
    /\ StepNames = <<"persist", "history", "__onEvery__", "t">>

(***************************************************************************)
(* Transitions labelled like observer slots                                *)
(***************************************************************************)
\* the number of times the last dispatch invoked the observer of a slot
Invocations(key) ==
    Cardinality({i \in DOMAIN trace.log :
                    trace.log[i].step = "call" /\ trace.log[i].key = key})

\* the failure observer is invoked by rejected dispatches only, and the
\* every-dispatch observer once by an accepted dispatch and not otherwise
SlotsApart ==
    /\ Accepted =>
          /\ Invocations("__onFail__") = 0
          /\ Invocations("__onEvery__") = IF Registered("__onEvery__") THEN 1 ELSE 0
    /\ Rejected =>
          /\ Invocations("__onEvery__") = 0
          /\ Invocations("__onFail__") = IF Registered("__onFail__") THEN 1 ELSE 0

\* C38: for every transition label, the slot names among them, the failure
\* observer is invoked only by rejected dispatches and the every-dispatch
\* observer exactly once per accepted dispatch
C38_ReservedSlotsApart == SlotsApart

\* the same for dispatches of transitions that are not labelled like a slot
C38_OrdinaryLabels ==
    (Dispatched /\ trace.evt.action \notin ReservedLabels) => SlotsApart

\* an accepted dispatch of the transition __onEvery__ invoked the
\* every-dispatch observer twice
C38_EveryTwice ==
    /\ Accepted /\ trace.evt.action = "__onEvery__"
    /\ Invocations("__onEvery__") = 2

\* an accepted dispatch of the transition __onFail__ invoked the failure
\* observer
C38_FailOnSuccess ==
    /\ Accepted /\ trace.evt.action = "__onFail__"
    /\ Invocations("__onFail__") = 1
    /\ trace.res.ok

(***************************************************************************)
(* Places declared with more tokens than their capacity                    *)
(***************************************************************************)
\* place i is bounded and holds more than its capacity in the marking v
Overfull(v, i) ==
    /\ model.places[i].capacity > 0
    /\ v[i] > model.places[i].capacity

\* C35: a declaration with initial > capacity > 0 is accepted, and from a
\* marking in which a place exceeds its capacity every petriNet firing of a
\* transition whose delta at that place is >= 0 is rejected
C35_OverfullRejectsAll ==
    /\ ~pflowModel("caller",
                   CallerDeclaration(<<0, MaxCap + 1>>, <<0, MaxCap>>,
                                     <<"out", "none">>, <<FALSE, FALSE>>, 1),
                   petriNet).threw
    /\ (/\ Fired /\ model.type = petriNet
        /\ \E i \in DOMAIN call.pre : Overfull(call.pre, i) /\ FiredT.delta[i] >= 0)
         => /\ ~call.res.ok
            /\ call.calls = <<"reject">>
            /\ vec = call.pre

\* a net declared with p2 over its capacity; the firing, which leaves p2
\* alone and is within bounds on p1, was rejected
C35_Witness ==
    /\ Fired /\ model.type = petriNet /\ ~call.guard
    /\ model.places[2].initial > model.places[2].capacity
    /\ Overfull(call.pre, 2) /\ FiredT.delta[2] = 0
    /\ FiredT.delta[1] > 0 /\ ~Overfull(Raw, 1)
    /\ ~call.res.ok

\* the same place with a delta that adds to it
C35_WitnessAdds ==
    /\ Fired /\ model.type = petriNet
    /\ Overfull(call.pre, 2) /\ FiredT.delta[2] > 0
    /\ ~call.res.ok

(***************************************************************************)
(* The tic-tac-toe sample                                                  *)
(***************************************************************************)
\* the tokens of a place in a marking
Tokens(v, label) == v[Get(model.places, label).offset + 1]

\* the board cells that have been taken in a marking
Taken(v) == {k \in DOMAIN Board : Tokens(v, Board[k]) = 0}

\* the last call was an accepted move
Moved == Fired /\ call.res.ok

\* no transition of the net can fire from the marking
NoneEnabled(v) ==
    \A action \in Moves : ~fire(model, v, action, 1, TRUE, TRUE).res.ok

\* C37: every reachable marking has one token in all on the turn places X
\* and O; the accepted moves alternate between X and O, the first by X; an
\* accepted move takes one free cell, so no cell is taken twice; there are
\* at most 9 accepted moves, after which no transition is enabled
C37_TicTacToe ==
    /\ Tokens(vec, "X") + Tokens(vec, "O") = 1
    /\ \A k \in DOMAIN Board : Tokens(vec, Board[k]) \in {0, 1}
    /\ call.op = "none" => (Tokens(vec, "X") = 1 /\ Taken(vec) = {})
    /\ Moved =>
          \E k \in DOMAIN Board, marking \in {"X", "O"} :
              /\ call.action = marking \o Board[k]
              /\ marking = (IF Cardinality(Taken(call.pre)) % 2 = 0 THEN "X" ELSE "O")
              /\ Tokens(call.pre, marking) = 1
              /\ Tokens(vec, NextPlayer(marking)) = 1
              /\ k \notin Taken(call.pre)
              /\ Taken(vec) = Taken(call.pre) \cup {k}
    /\ (Fired /\ ~call.res.ok) => vec = call.pre
    /\ Cardinality(Taken(vec)) <= Len(Board)
    /\ Cardinality(Taken(vec)) = Len(Board) => NoneEnabled(vec)

\* the ninth move, by X, on a full board
C37_Witness ==
    /\ Moved /\ Cardinality(Taken(vec)) = 9
    /\ Get(model.transitions, call.action).role = "X"
    /\ Tokens(vec, "O") = 1
    /\ NoneEnabled(vec)

\* a move on a cell that is taken was rejected
C37_WitnessTaken ==
    /\ Fired /\ ~call.res.ok
    /\ call.action = "O00" /\ Tokens(call.pre, "O") = 1
    /\ 1 \in Taken(call.pre)

\* a move out of turn was rejected
C37_WitnessOutOfTurn ==
    /\ Fired /\ ~call.res.ok
    /\ call.action = "O11" /\ Tokens(call.pre, "X") = 1
    /\ 5 \notin Taken(call.pre)

====
